---- MODULE Spec2Model ----
(***************************************************************************)
(* A model of sift (go.jayconrod.com/sift): the value protocol of          *)
(* value.go, the filter combinators and the Sift driver of filter.go, and  *)
(* the jq evaluator primitives of filter/jq.                               *)
(*                                                                         *)
(* Go slices of values ([]Value) are modelled with their backing arrays:   *)
(* a slice is a reference [arr, len, cap] into `heap`, and append writes   *)
(* in place when the capacity allows it, as the Go runtime does.           *)
(***************************************************************************)
EXTENDS Integers, Sequences, FiniteSets, TLC

VARIABLES
    heap,      \* backing arrays of every []Value list allocated so far
    prog,      \* the compiled filter tree (Literal nodes hold their slice s)
    satArch,   \* how this build converts a non-finite float64 to int
    release,   \* the Go release of this build: its runtime and Unicode tables
    history,   \* applications of prog made so far (SpecApply)
    pc,        \* position of Sift: "decode", "filter", "encode", "done", "panic"
    ndec,      \* number of Decode calls made by Sift
    vin,       \* Sift: the value last decoded
    vouts,     \* Sift: the slice returned by f(vin)
    vi,        \* Sift: position of the range loop over vouts
    ret,       \* Sift: the returned error ("nil" for none, "" while running)
    trace,     \* Sift: calls made on the decoder, the filter and the encoder
    scanner    \* the scanner of a compilation: src, ch, offset, rdOffset

vars == <<heap, prog, satArch, release, history, pc, ndec, vin, vouts, vi, ret, trace, scanner>>

(***************************************************************************)
(* Bounds of the model.                                                    *)
(***************************************************************************)
MaxApply == 2      \* applications of one filter recorded in SpecApply
MaxInputs == 2     \* values the decoder yields before it must stop
MaxSrc == 2        \* bytes of the sources enumerated in SpecScan
MaxScans == 4      \* calls of scan on one scanner in SpecScan

(***************************************************************************)
(* The Go releases a build is made with, as far as the program can tell    *)
(* them apart: 20 stands for Go 1.18 to 1.20 (Unicode 13.0), 21 for Go     *)
(* 1.21 (Unicode 15.0) and 22 for Go 1.22 to 1.25 (Unicode 15.0, and       *)
(* blocks of more than 512 bytes that hold pointers carry a header of 8    *)
(* bytes).                                                                 *)
(***************************************************************************)
Releases == {20, 21, 22}

(***************************************************************************)
(* Texts are sequences of bytes; the bytes used are 1 ("a"), 2 ("b"),      *)
(* 3 ("c") and 24 ("x").                                                   *)
(***************************************************************************)
RECURSIVE LexLess(_, _)
\* s < t for Go strings: bytewise lexicographic order.
LexLess(s, t) ==
    IF Len(t) = 0 THEN FALSE
    ELSE IF Len(s) = 0 THEN TRUE
    ELSE IF Head(s) # Head(t) THEN Head(s) < Head(t)
    ELSE LexLess(Tail(s), Tail(t))

(***************************************************************************)
(* Natural numbers of any size, for the significands of float64 values and *)
(* for the digits of decimal literals: a sequence of limbs in base 2^15,   *)
(* least limb first, with no zero limb at the end; <<>> is zero.           *)
(***************************************************************************)
Abs(n) == IF n < 0 THEN -n ELSE n
Sign(n) == IF n < 0 THEN -1 ELSE IF n > 0 THEN 1 ELSE 0

RECURSIVE NatTrim(_)
\* a without the zero limbs at its end
NatTrim(a) ==
    IF Len(a) > 0 /\ a[Len(a)] = 0 THEN NatTrim(SubSeq(a, 1, Len(a) - 1)) ELSE a

RECURSIVE NatOf(_)
\* The natural number of the integer n >= 0.
NatOf(n) == IF n = 0 THEN <<>> ELSE <<n % 32768>> \o NatOf(n \div 32768)

RECURSIVE NatInt(_)
\* The integer of a natural number below 2^31.
NatInt(a) == IF Len(a) = 0 THEN 0 ELSE a[1] + 32768 * NatInt(Tail(a))

NatLimb(a, i) == IF 0 < i /\ i <= Len(a) THEN a[i] ELSE 0

\* One limb of a sum, a difference or a product, as [l, c]: the limbs and
\* the carry out.
NatCarry(n) == [l |-> <<n % 32768>>, c |-> n \div 32768]
NatBorrow(n) == [l |-> <<(n + 32768) % 32768>>, c |-> IF n < 0 THEN 1 ELSE 0]
NatJoin(l, right) == [l |-> l \o right.l, c |-> right.c]

RECURSIVE NatAddRange(_, _, _, _, _)
\* The limbs lo..hi of a + b with the carry c into limb lo, as [l, c]; the
\* range is halved so that the nesting stays shallow.
NatAddRange(a, b, lo, hi, c) ==
    IF lo = hi THEN NatCarry(NatLimb(a, lo) + NatLimb(b, lo) + c)
    ELSE NatJoin(NatAddRange(a, b, lo, (lo + hi) \div 2, c).l,
                 NatAddRange(a, b, (lo + hi) \div 2 + 1, hi,
                             NatAddRange(a, b, lo, (lo + hi) \div 2, c).c))

NatAddEnd(r) == IF r.c = 0 THEN r.l ELSE Append(r.l, r.c)

NatAdd(a, b) ==
    IF Len(a) = 0 THEN b
    ELSE IF Len(b) = 0 THEN a
    ELSE NatAddEnd(NatAddRange(a, b, 1, IF Len(a) < Len(b) THEN Len(b) ELSE Len(a), 0))

RECURSIVE NatSubRange(_, _, _, _, _)
NatSubRange(a, b, lo, hi, c) ==
    IF lo = hi THEN NatBorrow(NatLimb(a, lo) - NatLimb(b, lo) - c)
    ELSE NatJoin(NatSubRange(a, b, lo, (lo + hi) \div 2, c).l,
                 NatSubRange(a, b, (lo + hi) \div 2 + 1, hi,
                             NatSubRange(a, b, lo, (lo + hi) \div 2, c).c))

\* a - b for a >= b
NatSub(a, b) ==
    IF Len(b) = 0 THEN a ELSE NatTrim(NatSubRange(a, b, 1, Len(a), 0).l)

\* a < b: the lengths decide, or the highest limb that differs
NatLess(a, b) ==
    IF Len(a) # Len(b) THEN Len(a) < Len(b)
    ELSE \E i \in 1..Len(a) :
            /\ a[i] < b[i]
            /\ \A k \in 1..(Len(a) - i) : a[Len(a) + 1 - k] = b[Len(a) + 1 - k]

RECURSIVE NatScaleRange(_, _, _, _, _)
NatScaleRange(a, k, lo, hi, c) ==
    IF lo = hi THEN NatCarry(a[lo] * k + c)
    ELSE NatJoin(NatScaleRange(a, k, lo, (lo + hi) \div 2, c).l,
                 NatScaleRange(a, k, (lo + hi) \div 2 + 1, hi,
                               NatScaleRange(a, k, lo, (lo + hi) \div 2, c).c))

\* a * k for 0 <= k < 2^15
NatScale(a, k) ==
    IF k = 0 \/ Len(a) = 0 THEN <<>>
    ELSE IF k = 1 THEN a
    ELSE NatAddEnd(NatScaleRange(a, k, 1, Len(a), 0))

\* a * 2^(15 k)
NatUp(a, k) == IF Len(a) = 0 THEN <<>> ELSE [i \in 1..k |-> 0] \o a

\* a \div 2^(15 k)
NatDown(a, k) == IF k >= Len(a) THEN <<>> ELSE SubSeq(a, k + 1, Len(a))

RECURSIVE NatMulRange(_, _, _, _)
\* a times the limbs lo..hi of b
NatMulRange(a, b, lo, hi) ==
    IF lo = hi THEN NatScale(a, b[lo])
    ELSE NatAdd(NatMulRange(a, b, lo, (lo + hi) \div 2),
                NatUp(NatMulRange(a, b, (lo + hi) \div 2 + 1, hi),
                      (lo + hi) \div 2 + 1 - lo))

NatMul(a, b) ==
    IF Len(a) = 0 \/ Len(b) = 0 THEN <<>> ELSE NatMulRange(a, b, 1, Len(b))

\* a * 2^n
NatShl(a, n) == NatUp(NatScale(a, 2^(n % 15)), n \div 15)

\* a \div 2^r for 0 <= r < 15
NatShrBits(a, r) ==
    IF r = 0 THEN a
    ELSE NatTrim(<<>> \o [i \in 1..Len(a) |->
                    (a[i] \div 2^r) + (NatLimb(a, i + 1) % 2^r) * 2^(15 - r)])

\* a \div 2^n
NatShr(a, n) == NatShrBits(NatDown(a, n \div 15), n % 15)

RECURSIVE BitLen(_)
BitLen(k) == IF k = 0 THEN 0 ELSE 1 + BitLen(k \div 2)

\* The number of bits of a: the least n with a < 2^n.
NatBits(a) == IF Len(a) = 0 THEN 0 ELSE 15 * (Len(a) - 1) + BitLen(a[Len(a)])

\* Bit n of a, bit 0 being the lowest.
NatBit(a, n) == (NatLimb(a, (n \div 15) + 1) \div 2^(n % 15)) % 2

RECURSIVE TrailingZeros(_)
TrailingZeros(k) == IF k % 2 = 1 THEN 0 ELSE 1 + TrailingZeros(k \div 2)

RECURSIVE NatTrailing(_, _)
\* The number of zero bits below the lowest set bit of a # 0, from limb i on.
NatTrailing(a, i) ==
    IF a[i] = 0 THEN 15 + NatTrailing(a, i + 1) ELSE TrailingZeros(a[i])

\* a is a multiple of 2^n
NatLowZero(a, n) == Len(a) = 0 \/ NatTrailing(a, 1) >= n

RECURSIVE NatDivLimb(_, _, _, _), NatDivGuess(_, _, _, _, _)
\* Long division of r by b, whose highest limb is 2^14 or more, from limb j
\* of the quotient down, given r < b * 2^(15 (j + 1)): the limbs of the
\* quotient put before q and the remainder, as [q, r].  The two highest
\* limbs of r divided by the highest limb of b exceed the limb of the
\* quotient by 2 at most.
NatDivLimb(r, b, j, q) ==
    IF j < 0 THEN [q |-> NatTrim(q), r |-> r]
    ELSE NatDivGuess(r, b, j, q,
            IF (NatLimb(r, j + Len(b) + 1) * 32768 + NatLimb(r, j + Len(b)))
                   \div b[Len(b)] > 32767
            THEN 32767
            ELSE (NatLimb(r, j + Len(b) + 1) * 32768 + NatLimb(r, j + Len(b)))
                   \div b[Len(b)])

NatDivGuess(r, b, j, q, g) ==
    IF NatLess(r, NatUp(NatScale(b, g), j)) THEN NatDivGuess(r, b, j, q, g - 1)
    ELSE NatDivLimb(NatSub(r, NatUp(NatScale(b, g), j)), b, j - 1, <<g>> \o q)

\* The quotient and the remainder d of a * 2^s by b * 2^s, without the 2^s.
NatDivEnd(d, s) == [q |-> d.q, r |-> NatShr(d.r, s)]

\* NatDivMod once a and b # 0 are shifted to make the highest limb of b
\* 2^14 or more.
NatDivShifted(a, b, s) == NatDivEnd(NatDivLimb(a, b, Len(a) - Len(b), <<>>), s)

\* a \div b and a % b for b # 0, as [q, r]
NatDivMod(a, b) ==
    NatDivShifted(NatShl(a, 15 - BitLen(b[Len(b)])),
                  NatShl(b, 15 - BitLen(b[Len(b)])),
                  15 - BitLen(b[Len(b)]))

RECURSIVE NatPow10(_)
\* 10^n, by squaring
NatPow10(n) ==
    IF n = 0 THEN <<1>>
    ELSE IF n % 2 = 1 THEN NatScale(NatPow10(n - 1), 10)
    ELSE NatMul(NatPow10(n \div 2), NatPow10(n \div 2))

RECURSIVE NatPow2Mod(_, _)
\* 2^n % b for b # 0, by squaring
NatPow2Mod(n, b) ==
    IF n < 64 THEN NatDivMod(NatShl(<<1>>, n), b).r
    ELSE NatDivMod(NatScale(NatMul(NatPow2Mod(n \div 2, b), NatPow2Mod(n \div 2, b)),
                            1 + (n % 2)), b).r

(***************************************************************************)
(* Numbers.  A float64 is the record [s, m, e] of its sign s (1 or -1),    *)
(* its significand m, an odd natural number below 2^53, and its exponent   *)
(* e: the value is s * m * 2^e, at least 2^-1074 and below 2^1024 in       *)
(* magnitude.  The zeros are [s, <<>>, 0], one of each sign.  The exponent *)
(* 1024 stands for the values that are not finite: m = <<1>> is the        *)
(* infinity of sign s and m = <<>> is NaN.  Every operation returns the    *)
(* float64 nearest to its exact result, ties to the even significand, as   *)
(* IEEE 754 arithmetic does.                                               *)
(***************************************************************************)
Float(s, m, e) == [s |-> s, m |-> m, e |-> e]
Zero(s) == Float(s, <<>>, 0)
Inf(s) == Float(s, <<1>>, 1024)
NaN == Float(1, <<>>, 1024)

IsNaN(f) == f.e = 1024 /\ Len(f.m) = 0
IsInf(f) == f.e = 1024 /\ Len(f.m) > 0
IsFinite(f) == f.e < 1024
IsZero(f) == f.e = 0 /\ Len(f.m) = 0

\* math.MaxFloat64, (2^53 - 1) * 2^971
MaxFloat64 == Float(1, <<32767, 32767, 32767, 255>>, 971)

\* The float64 s * n * 2^e for n # 0 of at most 53 bits (trailing zero bits
\* not counted) and a value in range: the significand is made odd.
Odd(s, n, e) == Float(s, NatShr(n, NatTrailing(n, 1)), e + NatTrailing(n, 1))

\* The float64 s * n * 2^e when it needs no rounding; one that is too large
\* is an infinity.
Finite(s, n, e) ==
    IF Len(n) = 0 THEN Zero(s)
    ELSE IF e + NatBits(n) > 1024 THEN Inf(s)
    ELSE Odd(s, n, e)

\* The exponent of the last place of a float64 whose leading bit has
\* exponent h: 53 bits of precision, fewer below 2^-1022.
Quantum(h) == IF h - 52 < -1074 THEN -1074 ELSE h - 52

\* s * n * 2^e with its lowest d > 0 bits rounded away; sticky tells that
\* the exact value is above n * 2^e (and below (n + 1) * 2^e).
RoundBits(s, n, e, sticky, d) ==
    IF /\ NatBit(n, d - 1) = 1
       /\ (sticky \/ ~NatLowZero(n, d - 1) \/ NatBit(n, d) = 1)
    THEN Finite(s, NatAdd(NatShr(n, d), <<1>>), e + d)
    ELSE Finite(s, NatShr(n, d), e + d)

\* The float64 nearest to s * n * 2^e; with sticky, n has 56 bits or more.
Round(s, n, e, sticky) ==
    IF Len(n) = 0 THEN Zero(s)
    ELSE IF e >= Quantum(e + NatBits(n) - 1) THEN Finite(s, n, e)
    ELSE RoundBits(s, n, e, sticky, Quantum(e + NatBits(n) - 1) - e)

\* float64(n) for an integer n of the model
FromInt(n) == IF n = 0 THEN Zero(1) ELSE Odd(Sign(n), NatOf(Abs(n)), 0)

\* x == y on float64: NaN equals nothing and the two zeros are equal.
FEq(x, y) ==
    /\ ~IsNaN(x)
    /\ ~IsNaN(y)
    /\ (x = y \/ (IsZero(x) /\ IsZero(y)))

\* The sum of sx * a * 2^e and sy * b * 2^e for a, b # 0.
Sum(sx, a, sy, b, e) ==
    IF sx = sy THEN Round(sx, NatAdd(a, b), e, FALSE)
    ELSE IF a = b THEN Zero(1)
    ELSE IF NatLess(a, b) THEN Round(sy, NatSub(b, a), e, FALSE)
    ELSE Round(sx, NatSub(a, b), e, FALSE)

\* The exponent of the leading bit of a finite f # 0: 2^h <= |f| < 2^(h+1).
Exponent(f) == f.e + NatBits(f.m) - 1

\* x + y for finite x, y # 0 with |y| < 2^(x.e - 60): y only tells on which
\* side of x the sum lies.
SumFar(x, y) ==
    IF x.s = y.s THEN Round(x.s, NatShl(x.m, 60), x.e - 60, TRUE)
    ELSE Round(x.s, NatSub(NatShl(x.m, 60), <<1>>), x.e - 60, TRUE)

\* xn + yn
FAdd(x, y) ==
    IF IsNaN(x) \/ IsNaN(y) THEN NaN
    ELSE IF IsInf(x) THEN (IF IsInf(y) /\ x.s # y.s THEN NaN ELSE x)
    ELSE IF IsInf(y) THEN y
    ELSE IF IsZero(x) /\ IsZero(y)
    THEN Zero(IF x.s = -1 /\ y.s = -1 THEN -1 ELSE 1)
    ELSE IF IsZero(x) THEN y
    ELSE IF IsZero(y) THEN x
    ELSE IF Exponent(y) < x.e - 60 THEN SumFar(x, y)
    ELSE IF Exponent(x) < y.e - 60 THEN SumFar(y, x)
    ELSE IF x.e <= y.e THEN Sum(x.s, x.m, y.s, NatShl(y.m, y.e - x.e), x.e)
    ELSE Sum(x.s, NatShl(x.m, x.e - y.e), y.s, y.m, y.e)

\* -n
FNeg(x) == IF IsNaN(x) THEN x ELSE [x EXCEPT !.s = -x.s]

\* xn - yn
FSub(x, y) == FAdd(x, FNeg(y))

\* x * y
FMul(x, y) ==
    IF IsNaN(x) \/ IsNaN(y) THEN NaN
    ELSE IF (IsInf(x) /\ IsZero(y)) \/ (IsZero(x) /\ IsInf(y)) THEN NaN
    ELSE IF IsInf(x) \/ IsInf(y) THEN Inf(x.s * y.s)
    ELSE IF IsZero(x) \/ IsZero(y) THEN Zero(x.s * y.s)
    ELSE Round(x.s * y.s, NatMul(x.m, y.m), x.e + y.e, FALSE)

\* The float64 nearest to s * (a / b) * 2^e once d = [q, r] is the quotient
\* and the remainder of a * 2^k by b.
Quotient(s, d, e) == Round(s, d.q, e, Len(d.r) > 0)

\* The float64 nearest to s * (a / b) * 2^e for a, b # 0: the quotient is
\* computed to 56 bits or more.
Ratio(s, a, b, e) ==
    IF NatBits(a) >= NatBits(b) + 56 THEN Quotient(s, NatDivMod(a, b), e)
    ELSE Quotient(s, NatDivMod(NatShl(a, 56 + NatBits(b) - NatBits(a)), b),
                  e - (56 + NatBits(b) - NatBits(a)))

\* x / y: division by zero yields an infinity or NaN, never an error
FDiv(x, y) ==
    IF IsNaN(x) \/ IsNaN(y) THEN NaN
    ELSE IF IsInf(x) THEN (IF IsInf(y) THEN NaN ELSE Inf(x.s * y.s))
    ELSE IF IsInf(y) THEN Zero(x.s * y.s)
    ELSE IF IsZero(y) THEN (IF IsZero(x) THEN NaN ELSE Inf(x.s * y.s))
    ELSE IF IsZero(x) THEN Zero(x.s * y.s)
    ELSE Ratio(x.s * y.s, x.m, y.m, x.e - y.e)

\* The float64 of the rational p / q; q = 0 gives the infinity of the sign
\* of p, or NaN when p = 0.
Rat(p, q) ==
    IF q = 0 THEN (IF p > 0 THEN Inf(1) ELSE IF p < 0 THEN Inf(-1) ELSE NaN)
    ELSE IF q = 1 THEN FromInt(p)
    ELSE FDiv(FromInt(p), FromInt(q))

\* f is finite and has no fraction.
IsWhole(f) == IsFinite(f) /\ f.e >= 0

\* The integer part of a finite float64 below 2^31 in magnitude, rounded
\* toward zero.
Trunc(f) ==
    f.s * NatInt(IF f.e >= 0 THEN NatShl(f.m, f.e) ELSE NatShr(f.m, -f.e))

\* math.Mod(x, y): the remainder has the sign of x.  The remainder of
\* x.m * 2^(x.e - y.e) by y.m is that of x.m * (2^(x.e - y.e) % y.m).
FMod(x, y) ==
    IF IsNaN(x) \/ IsNaN(y) \/ IsInf(x) \/ IsZero(y) THEN NaN
    ELSE IF IsInf(y) \/ IsZero(x) THEN x
    ELSE IF Exponent(x) < Exponent(y) THEN x
    ELSE IF x.e <= y.e
    THEN Finite(x.s, NatDivMod(x.m, NatShl(y.m, y.e - x.e)).r, x.e)
    ELSE Finite(x.s, NatDivMod(NatMul(x.m, NatPow2Mod(x.e - y.e, y.m)), y.m).r, y.e)

(***************************************************************************)
(* int(f), the Go conversion of a float64 to int.  For a finite f in range *)
(* it truncates toward zero.  For a NaN, an infinity or a value outside    *)
(* -2^63 <= f < 2^63 the result is implementation-specific: builds either  *)
(* saturate or return the least int whatever the operand; `sat` tells      *)
(* which.  The model's integers are narrower than int: MinInt and MaxInt   *)
(* stand for the least and the greatest int, and Far and -Far for every    *)
(* other int of magnitude 2^29 or more; these are only ever compared with, *)
(* and added to, lengths.                                                  *)
(***************************************************************************)
MinInt == -(2^30)   \* stands for the least int, -2^63
MaxInt == 2^30 - 1  \* stands for the greatest int, 2^63 - 1
Far == 2^29         \* stands for an int from 2^29 up to 2^63 - 1024
IntOf(f, sat) ==
    IF IsFinite(f) /\ (IsZero(f) \/ Exponent(f) < 29) THEN Trunc(f)
    ELSE IF IsFinite(f) /\ Exponent(f) < 63 THEN f.s * Far
    ELSE IF f = Float(-1, <<1>>, 63) THEN MinInt
    ELSE IF ~sat THEN MinInt
    ELSE IF IsNaN(f) THEN 0
    ELSE IF f.s > 0 THEN MaxInt
    ELSE MinInt

\* float64(i) for an int i other than Far and -Far; the greatest int
\* rounds to 2^63.
Float64OfInt(i) ==
    IF i = MaxInt THEN Float(1, <<1>>, 63)
    ELSE IF i = MinInt THEN Float(-1, <<1>>, 63)
    ELSE FromInt(i)

\* f != float64(i), where i is int(f) when it is Far or -Far
FloatNeqInt(f, i) ==
    IF i = Far \/ i = -Far THEN ~IsWhole(f)
    ELSE ~FEq(f, Float64OfInt(i))

(***************************************************************************)
(* Values.  Each record stands for one Go representation:                  *)
(*   "null", "bool", "num", "str", "obj", "arr"  the basic types of        *)
(*       value.go (nullType ... attrType, indexType);                      *)
(*   "jscalar", "jobj", "jarr"  the JSON package's value, attrValue and    *)
(*       indexValue, which wrap raw decoded data ("raw" records);          *)
(*   Hole is the nil interface: an absent slot of an indexType.            *)
(***************************************************************************)
Hole == [k |-> "hole"]
NullValue == [k |-> "null"]
BoolV(b) == [k |-> "bool", b |-> b]
NumV(f) == [k |-> "num", f |-> f]
Num(n) == NumV(Rat(n, 1))
StrV(s) == [k |-> "str", s |-> s]
ObjV(m) == [k |-> "obj", m |-> m]
ArrV(e) == [k |-> "arr", e |-> e]

RawNil == [k |-> "raw", t |-> "nil"]
RawBool(b) == [k |-> "raw", t |-> "bool", b |-> b]
RawNum(f) == [k |-> "raw", t |-> "float64", f |-> f]
RawStr(s) == [k |-> "raw", t |-> "string", s |-> s]
RawMap(m) == [k |-> "raw", t |-> "map", m |-> m]
RawSlice(e) == [k |-> "raw", t |-> "slice", e |-> e]

JScalar(i) == [k |-> "jscalar", i |-> i]
JObj(m) == [k |-> "jobj", m |-> m]
JArr(e) == [k |-> "jarr", e |-> e]

EmptyMap == [x \in {} |-> Hole]

\* decoder.Decode: wraps the raw datum read from the stream
Decode(raw) ==
    IF raw.t = "map" THEN JObj(raw.m)
    ELSE IF raw.t = "slice" THEN JArr(raw.e)
    ELSE JScalar(raw)

RECURSIVE ToValue(_)
(* ToValue for the argument types the program passes to it.  The result is  *)
(* [v, err]: err is TRUE when ToValue returns an error.  A "gomap" record   *)
(* is a Go map[string]Value and a "goslice" record a []Value, neither of    *)
(* which is a Value itself.                                                 *)
ToValue(x) ==
    IF x.k = "raw" THEN
        CASE x.t = "nil" -> [v |-> NullValue, err |-> FALSE]
          [] x.t = "bool" -> [v |-> BoolV(x.b), err |-> FALSE]
          [] x.t = "float64" -> [v |-> NumV(x.f), err |-> FALSE]
          [] x.t = "string" -> [v |-> StrV(x.s), err |-> FALSE]
          [] x.t = "map" ->
               [v |-> ObjV([key \in DOMAIN x.m |-> ToValue(x.m[key]).v]),
                err |-> \E key \in DOMAIN x.m : ToValue(x.m[key]).err]
          [] x.t = "slice" ->
               [v |-> ArrV([j \in 1..Len(x.e) |-> ToValue(x.e[j]).v]),
                err |-> \E j \in 1..Len(x.e) : ToValue(x.e[j]).err]
    ELSE IF x.k = "goslice" THEN [v |-> ArrV(x.e), err |-> FALSE]
    ELSE IF x.k = "gomap" THEN [v |-> Hole, err |-> TRUE]
    ELSE [v |-> x, err |-> FALSE]

GoSlice(e) == [k |-> "goslice", e |-> e]
GoMap(m) == [k |-> "gomap", m |-> m]

\* v.(Null), v.(Bool), v.(Float64), v.(String): the type assertions
ImplNull(v) == v.k \in {"null", "jscalar"}
ImplBool(v) == v.k \in {"bool", "jscalar"}
ImplFloat64(v) == v.k \in {"num", "jscalar"}
ImplString(v) == v.k \in {"str", "jscalar"}
ImplAttr(v) == v.k \in {"obj", "jobj"}
ImplIndex(v) == v.k \in {"arr", "jarr"}

IsNull(v) == v.k = "null" \/ (v.k = "jscalar" /\ v.i.t = "nil")

\* AsFloat64: [f, ok]
AsFloat64(v) ==
    IF v.k = "num" THEN [f |-> v.f, ok |-> TRUE]
    ELSE IF v.k = "jscalar" /\ v.i.t = "float64" THEN [f |-> v.i.f, ok |-> TRUE]
    ELSE [f |-> Rat(0, 1), ok |-> FALSE]

\* AsString: [s, ok]
AsString(v) ==
    IF v.k = "str" THEN [s |-> v.s, ok |-> TRUE]
    ELSE IF v.k = "jscalar" /\ v.i.t = "string" THEN [s |-> v.i.s, ok |-> TRUE]
    ELSE [s |-> <<>>, ok |-> FALSE]

\* Truth()
Truth(v) ==
    CASE v.k = "null" -> FALSE
      [] v.k = "bool" -> v.b
      [] v.k = "num" -> ~IsZero(v.f)
      [] v.k = "str" -> v.s # <<>>
      [] v.k = "jscalar" ->
           (CASE v.i.t = "nil" -> FALSE
              [] v.i.t = "bool" -> v.i.b
              [] v.i.t = "float64" -> ~IsZero(v.i.f)
              [] v.i.t = "string" -> v.i.s # <<>>)
      [] OTHER -> TRUE

\* Float64() of a value that implements Float64
Float64Of(v) ==
    IF v.k = "num" THEN v.f
    ELSE IF v.i.t = "float64" THEN v.i.f ELSE Rat(0, 1)

RECURSIVE SortKeys(_)
\* The keys of a Go map in increasing order.
SortKeys(S) ==
    IF S = {} THEN <<>>
    ELSE LET least == CHOOSE s \in S : \A t \in S \ {s} : LexLess(s, t)
         IN <<least>> \o SortKeys(S \ {least})

\* Keys() of an Attr: the keys as string values, sorted
Keys(v) == [j \in 1..Cardinality(DOMAIN v.m) |-> StrV(SortKeys(DOMAIN v.m)[j])]

\* Attr(key) of an Attr: [v, ok]
Attr(v, key) ==
    LET name == AsString(key)
    IN IF ~name.ok \/ name.s \notin DOMAIN v.m THEN [v |-> Hole, ok |-> FALSE]
       ELSE IF v.k = "obj" THEN [v |-> v.m[name.s], ok |-> TRUE]
       ELSE [v |-> ToValue(v.m[name.s]).v, ok |-> TRUE]

\* GetAttr
GetAttr(v, key) == IF ImplAttr(v) THEN Attr(v, key) ELSE [v |-> Hole, ok |-> FALSE]

\* GetStringAttr
GetStringAttr(v, name) == GetAttr(v, StrV(name))

\* Length() of an Index
IndexLength(v) == Len(v.e)

\* Index(i) of an Index: [v, ok]
Index(v, i) ==
    IF i < 0 \/ i >= Len(v.e) THEN [v |-> Hole, ok |-> FALSE]
    ELSE IF v.k = "arr" THEN
        (IF v.e[i + 1] = Hole THEN [v |-> Hole, ok |-> FALSE]
         ELSE [v |-> v.e[i + 1], ok |-> TRUE])
    ELSE LET c == ToValue(v.e[i + 1])
         IN IF c.err THEN [v |-> Hole, ok |-> FALSE] ELSE [v |-> c.v, ok |-> TRUE]

\* Length: [n, ok]
Length(v) ==
    IF ImplIndex(v) THEN [n |-> IndexLength(v), ok |-> TRUE]
    ELSE IF AsString(v).ok THEN [n |-> Len(AsString(v).s), ok |-> TRUE]
    ELSE [n |-> 0, ok |-> FALSE]

RECURSIVE Equal(_, _)
\* Equal
Equal(l, r) ==
    IF IsNull(l) THEN IsNull(r)
    ELSE IF ImplBool(l) THEN ImplBool(r) /\ Truth(l) = Truth(r)
    ELSE IF ImplFloat64(l) THEN
        ImplFloat64(r) /\ FEq(Float64Of(l), Float64Of(r))
    ELSE IF ImplString(l) THEN ImplString(r) /\ l = r
    ELSE IF ImplAttr(l) THEN
        /\ ImplAttr(r)
        /\ Len(Keys(l)) = Len(Keys(r))
        /\ \A j \in 1..Len(Keys(l)) :
              /\ Equal(Keys(l)[j], Keys(r)[j])
              /\ Attr(l, Keys(l)[j]).ok
              /\ Attr(r, Keys(r)[j]).ok
              /\ Equal(Attr(l, Keys(l)[j]).v, Attr(r, Keys(r)[j]).v)
    ELSE IF ImplIndex(l) THEN
        /\ ImplIndex(r)
        /\ IndexLength(l) = IndexLength(r)
        /\ \A j \in 0..(IndexLength(l) - 1) :
              /\ Index(l, j).ok = Index(r, j).ok
              /\ Index(l, j).ok => Equal(Index(l, j).v, Index(r, j).v)
    ELSE FALSE

(***************************************************************************)
(* Slices of values.  A []Value is [arr, len, cap]: arr indexes `heap`     *)
(* (0 for the nil slice), whose entry is the backing array, as long as the *)
(* capacity; unused slots hold the nil interface.                          *)
(***************************************************************************)
NilSlice == [arr |-> 0, len |-> 0, cap |-> 0]

Contents(h, s) == IF s.arr = 0 THEN <<>> ELSE SubSeq(h[s.arr], 1, s.len)

Pad(n) == [j \in 1..n |-> Hole]

\* make([]Value, len(xs), cap) holding xs, or the literal []Value{...}
MakeSlice(h, xs, cap) ==
    [heap |-> Append(h, xs \o Pad(cap - Len(xs))),
     s |-> [arr |-> Len(h) + 1, len |-> Len(xs), cap |-> cap]]

\* The sizes in bytes of the blocks the allocator hands out, up to 32768.
SizeClasses ==
    <<8, 16, 24, 32, 48, 64, 80, 96, 112, 128, 144, 160, 176, 192, 208, 224,
      240, 256, 288, 320, 352, 384, 416, 448, 480, 512, 576, 640, 704, 768,
      896, 1024, 1152, 1280, 1408, 1536, 1792, 2048, 2304, 2688, 3072, 3200,
      3456, 4096, 4864, 5120, 5376, 6144, 6528, 6784, 6912, 8192, 9472, 9728,
      10240, 10880, 12288, 13568, 14336, 16384, 18432, 19072, 20480, 21760,
      24576, 27264, 28672, 32768>>

\* The least size class that holds n <= 32768 bytes.
SizeClass(n) ==
    SizeClasses[CHOOSE i \in 1..Len(SizeClasses) :
                   /\ SizeClasses[i] >= n
                   /\ (i = 1 \/ SizeClasses[i - 1] < n)]

\* roundupsize(n, noscan = false): the bytes usable in the block allocated
\* for n > 0 bytes that hold pointers.  Up to release 21 it is the least
\* size class, or whole pages of 8192 bytes above 32768.  From release 22
\* on a block of more than 512 bytes carries a header of 8 bytes, which is
\* taken off its size class, and whole pages start above 32760.
RoundUpSize(n) ==
    IF release < 22
    THEN (IF n > 32768 THEN ((n + 8191) \div 8192) * 8192 ELSE SizeClass(n))
    ELSE IF n > 32760 THEN ((n + 8191) \div 8192) * 8192
    ELSE IF n > 512 THEN SizeClass(n + 8) - 8
    ELSE SizeClass(n)

RECURSIVE GrowLoop(_, _)
\* A capacity of 256 or more grows by a quarter plus 192 until it suffices.
GrowLoop(newcap, need) ==
    IF newcap >= need THEN newcap
    ELSE GrowLoop(newcap + (newcap + 768) \div 4, need)

\* The capacity append asks for: the length needed when it exceeds twice
\* the old capacity, else twice a capacity below 256.
NextCap(old, need) ==
    IF need > 2 * old THEN need
    ELSE IF old < 256 THEN 2 * old
    ELSE GrowLoop(old, need)

\* The capacity the runtime picks when append must grow a slice of values,
\* of 16 bytes each, to the length need > old: what fits the block
\* allocated for the capacity asked for.
GrowCap(old, need) == RoundUpSize(NextCap(old, need) * 16) \div 16

\* append(s, xs...)
GoAppend(h, s, xs) ==
    IF Len(xs) = 0 THEN [heap |-> h, s |-> s]
    ELSE IF s.len + Len(xs) <= s.cap THEN
        [heap |-> [h EXCEPT ![s.arr] =
                      [j \in 1..s.cap |->
                          IF j > s.len /\ j <= s.len + Len(xs)
                          THEN xs[j - s.len] ELSE @[j]]],
         s |-> [s EXCEPT !.len = s.len + Len(xs)]]
    ELSE MakeSlice(h, Contents(h, s) \o xs, GrowCap(s.cap, s.len + Len(xs)))

\* xvs[:len(xvs):len(xvs)]
CapToLen(s) == [s EXCEPT !.cap = s.len]

(***************************************************************************)
(* Results of a filter application.  st is the evaluation state: the heap, *)
(* the log of filter calls made (each [path, v]: the node of the filter    *)
(* tree called, by its path from the root, and its input) and the build's  *)
(* float-to-int behaviour.  err is "nil" or the error; panic tells that    *)
(* the call did not return but panicked.                                   *)
(***************************************************************************)
Ok(st, s) == [st |-> st, out |-> s, err |-> "nil", panic |-> FALSE]
Fail(st, msg) == [st |-> st, out |-> NilSlice, err |-> msg, panic |-> FALSE]
Panic(st) == [st |-> st, out |-> NilSlice, err |-> "nil", panic |-> TRUE]
Failed(r) == r.panic \/ r.err # "nil"

\* return []sift.Value{v}, nil
One(st, v) ==
    Ok([st EXCEPT !.heap = MakeSlice(st.heap, <<v>>, 1).heap],
       MakeSlice(st.heap, <<v>>, 1).s)

\* return []sift.Value{sift.Must(sift.ToValue(x))}, nil
OneMust(st, x) == IF ToValue(x).err THEN Panic(st) ELSE One(st, ToValue(x).v)

\* id
Id(st, v) == One(st, v)

\* An attrLit that emits nothing for a missing attribute, required or not.
AttrLitNone(st, lit, required, v) ==
    IF ~GetStringAttr(v, lit).ok THEN Ok(st, NilSlice)
    ELSE One(st, GetStringAttr(v, lit).v)

\* An attrLit that emits null for a missing attribute, required or not.
AttrLitNull(st, lit, required, v) ==
    IF ~GetStringAttr(v, lit).ok THEN OneMust(st, RawNil)
    ELSE One(st, GetStringAttr(v, lit).v)

\* attrLit(lit, required)
AttrLit(st, lit, required, v) ==
    IF ~GetStringAttr(v, lit).ok THEN
        (IF required THEN OneMust(st, RawNil) ELSE Ok(st, NilSlice))
    ELSE One(st, GetStringAttr(v, lit).v)

\* v, ok := base.Index(i) or base.Attr(idx), and the return of index
IndexResult(st, e) == IF ~e.ok THEN OneMust(st, RawNil) ELSE One(st, e.v)

\* index, case sift.Index, once idx is known to be the number f and i := int(f)
IndexInt(st, base, f, i) ==
    IF FloatNeqInt(f, i) THEN Ok(st, NilSlice)
    ELSE IndexResult(st, Index(base, IF i < 0 THEN i + IndexLength(base) ELSE i))

\* index
IndexOp(st, base, idx) ==
    IF ImplIndex(base) THEN
        (IF ~AsFloat64(idx).ok THEN Fail(st, "cannot index array with value")
         ELSE IndexInt(st, base, AsFloat64(idx).f, IntOf(AsFloat64(idx).f, st.sat)))
    ELSE IF ImplAttr(base) THEN IndexResult(st, Attr(base, idx))
    ELSE IF ~IsNull(base) THEN Fail(st, "cannot index value")
    ELSE OneMust(st, RawNil)

\* The three adjustments clampIndex makes to i := int(f)
ClampInt(i, n) ==
    IF i < 0 THEN (IF i + n < 0 THEN 0 ELSE IF i + n > n THEN n ELSE i + n)
    ELSE IF i > n THEN n ELSE i

\* clampIndex: [i, err]
ClampIndex(idx, n, sat) ==
    IF ~AsFloat64(idx).ok THEN [i |-> -1, err |-> "index must be number"]
    ELSE [i |-> ClampInt(IntOf(AsFloat64(idx).f, sat), n), err |-> "nil"]

RECURSIVE SliceElems(_, _, _)
\* The loop of slice: the elements of positions lo <= i < hi that Index reports.
SliceElems(base, lo, hi) ==
    IF lo >= hi THEN <<>>
    ELSE (IF Index(base, lo).ok THEN <<Index(base, lo).v>> ELSE <<>>)
         \o SliceElems(base, lo + 1, hi)

\* slice, from the computation of beginI (b) and endI (e) on; each is [i, err]
SliceRange(st, base, b, e) ==
    IF b.err # "nil" THEN Fail(st, b.err)
    ELSE IF e.err # "nil" THEN Fail(st, e.err)
    ELSE IF ImplIndex(base) THEN
        \* make([]sift.Value, 0, endI-beginI) panics on a negative capacity
        (IF e.i - b.i < 0 THEN Panic(st)
         ELSE OneMust(st, GoSlice(SliceElems(base, b.i, e.i))))
    ELSE IF AsString(base).ok THEN
        \* baseString[beginI:endI] panics when beginI > endI
        (IF b.i > e.i THEN Panic(st)
         ELSE OneMust(st, RawStr(SubSeq(AsString(base).s, b.i + 1, e.i))))
    ELSE Panic(st)

\* slice; a begin or end of Hole is the nil the parser passes for an omitted bound
SliceOp(st, base, begin, end) ==
    IF IsNull(base) THEN One(st, NullValue)
    ELSE IF ~Length(base).ok THEN Fail(st, "cannot slice value")
    ELSE SliceRange(st, base,
            IF begin = Hole THEN [i |-> 0, err |-> "nil"]
            ELSE ClampIndex(begin, Length(base).n, st.sat),
            IF end = Hole THEN [i |-> Length(base).n, err |-> "nil"]
            ELSE ClampIndex(end, Length(base).n, st.sat))

\* return elems, nil for a slice elems that make allocated
Made(st, a) == Ok([st EXCEPT !.heap = a.heap], a.s)

\* iterate
Iterate(st, v) ==
    IF ~ImplIndex(v) THEN Fail(st, "cannot iterate over value")
    ELSE Made(st, MakeSlice(st.heap,
                  [j \in 1..IndexLength(v) |->
                      IF Index(v, j - 1).ok THEN Index(v, j - 1).v
                      ELSE ToValue(RawNil).v],
                  IndexLength(v)))

\* An iterateOpt without the test that makes it optional.
IterateOptStrict(st, v) == Iterate(st, v)

\* iterateOpt
IterateOpt(st, v) == IF ~ImplIndex(v) THEN Ok(st, NilSlice) ELSE Iterate(st, v)

RECURSIVE ObjectPairs(_, _)
(* The loop of constructObject over attrs (key, value, key, value, ...):    *)
(* [m, err], the map built, later keys overwriting earlier ones.            *)
ObjectPairs(attrs, m) ==
    IF Len(attrs) = 0 THEN [m |-> m, err |-> "nil"]
    ELSE LET key == AsString(attrs[1])
         IN IF ~key.ok THEN [m |-> m, err |-> "cannot use value as object key"]
            ELSE ObjectPairs(SubSeq(attrs, 3, Len(attrs)),
                             [x \in DOMAIN m \cup {key.s} |->
                                 IF x = key.s THEN attrs[2] ELSE m[x]])

\* constructObject
ConstructObject(st, attrs) ==
    IF Len(attrs) % 2 # 0 THEN Panic(st)
    ELSE IF ObjectPairs(attrs, EmptyMap).err # "nil"
        THEN Fail(st, ObjectPairs(attrs, EmptyMap).err)
    ELSE OneMust(st, GoMap(ObjectPairs(attrs, EmptyMap).m))

(***************************************************************************)
(* The operators on values return (Value, error): here [v, err, panic].    *)
(***************************************************************************)
VOk(v) == [v |-> v, err |-> "nil", panic |-> FALSE]
VFail(msg) == [v |-> Hole, err |-> msg, panic |-> FALSE]
VMust(x) == IF ToValue(x).err THEN [v |-> Hole, err |-> "nil", panic |-> TRUE]
            ELSE VOk(ToValue(x).v)

\* neg
Neg(v) ==
    IF ~AsFloat64(v).ok THEN VFail("cannot negate value")
    ELSE VMust(RawNum(FNeg(AsFloat64(v).f)))

\* The elements of an Index that Index reports, in order.
\* The elements of an Index with Null at each hole, as iterate returns them.
PresentOrNull(v) ==
    [j \in 1..IndexLength(v) |-> IF Index(v, j - 1).ok THEN Index(v, j - 1).v ELSE NullValue]

Present(v) == SliceElems(v, 0, IndexLength(v))

\* add
Add(x, y) ==
    IF AsFloat64(x).ok THEN
        (IF ~AsFloat64(y).ok THEN VFail("cannot use numeric operator on value")
         ELSE VMust(RawNum(FAdd(AsFloat64(x).f, AsFloat64(y).f))))
    ELSE IF AsString(x).ok THEN
        (IF ~AsString(y).ok THEN VFail("cannot concatenate string with value")
         ELSE VMust(RawStr(AsString(x).s \o AsString(y).s)))
    ELSE IF ImplIndex(x) THEN
        (IF ~ImplIndex(y) THEN VFail("cannot concatenate array with value")
         ELSE VMust(GoSlice(Present(x) \o Present(y))))
    ELSE IF ImplAttr(x) THEN
        (IF ~ImplAttr(y) THEN VFail("cannot concatenate object with value")
         ELSE VMust(GoMap([key \in DOMAIN x.m \cup DOMAIN y.m |->
                             IF key \in DOMAIN x.m THEN Attr(x, StrV(key)).v
                             ELSE Attr(y, StrV(key)).v])))
    ELSE VFail("cannot use numeric operator on values")

\* sub
Sub(x, y) ==
    IF AsFloat64(x).ok THEN
        (IF ~AsFloat64(y).ok THEN VFail("cannot use numeric operator on value")
         ELSE VMust(RawNum(FSub(AsFloat64(x).f, AsFloat64(y).f))))
    ELSE IF ImplIndex(x) THEN
        (IF ~ImplIndex(y) THEN VFail("cannot substract value from list")
         ELSE VMust(GoSlice(SelectSeq(Present(x),
                 LAMBDA xe : \A j \in 1..Len(Present(y)) : ~Equal(xe, Present(y)[j])))))
    ELSE VFail("cannot use numeric operator on values")

\* The float64 function of a numeric operator: *, / and math.Mod
NumFn(name, xn, yn) ==
    CASE name = "mul" -> FMul(xn, yn)
      [] name = "div" -> FDiv(xn, yn)
      [] name = "mod" -> FMod(xn, yn)

\* The closure numOp passes to Binary
NumOp(st, name, xv, yv) ==
    IF ~AsFloat64(xv).ok THEN Fail(st, "cannot use numeric operator on value")
    ELSE IF ~AsFloat64(yv).ok THEN Fail(st, "cannot use numeric operator on value")
    ELSE OneMust(st, RawNum(NumFn(name, AsFloat64(xv).f, AsFloat64(yv).f)))

\* The closure binop passes to Binary, and MapError
Wrap(st, r) ==
    IF r.panic THEN Panic(st)
    ELSE IF r.err # "nil" THEN Fail(st, r.err)
    ELSE One(st, r.v)

(***************************************************************************)
(* Filter trees.  A node is a record with field op:                        *)
(*   "id", "iterate", "iterateOpt", "walk", "neg", "emptyObject"  leaves;  *)
(*   "literal"   Literal(v): s is the slice the closure captured (v is     *)
(*               kept beside it only to state what it was built from);     *)
(*   "attrLit"   attrLit(lit, required);                                   *)
(*   "compose"   Compose(f, g);      "concat"  Concat(x, y);               *)
(*   "binary"    Binary(x, y, fn), fn one of "index", "sliceEnd",          *)
(*               "sliceBegin", "add", "sub", "mul", "div", "mod";          *)
(*   "ternary"   Ternary(x, y, z, slice);                                  *)
(*   "array"     the closure of parseArrayConstruct over exprs;            *)
(*   "nary"      Nary(fs, constructObject).                                *)
(* A node is named by its path from the root: <<>> is the root, p \o <<j>> *)
(* the j-th sub-filter of p.                                               *)
(***************************************************************************)
RECURSIVE Eval(_, _, _, _)

\* Literal's closure
Literal(st, s) == Ok(st, s)

(* outs = append(outs, r.out...) after the call that returned r: the new    *)
(* state and the new slice, [st, s].                                        *)
Acc(r, outs) ==
    [st |-> [r.st EXCEPT !.heap =
                 GoAppend(r.st.heap, outs, Contents(r.st.heap, r.out)).heap],
     s |-> GoAppend(r.st.heap, outs, Contents(r.st.heap, r.out)).s]

\* if err != nil { return nil, err }, for a result that did not succeed
Abort(r) == IF r.panic THEN Panic(r.st) ELSE Fail(r.st, r.err)

RECURSIVE ComposeLoop(_, _, _, _, _, _)
RECURSIVE ComposeBody(_, _, _, _, _, _)
\* The range loop of Compose over vfs, from position i, with vout built so far.
ComposeLoop(g, gpath, vfs, i, st, vout) ==
    IF i > vfs.len THEN Ok(st, vout)
    ELSE ComposeBody(g, gpath, vfs, i, vout,
                     Eval(g, gpath, Contents(st.heap, vfs)[i], st))

\* A loop body that drops a failing g(vf) and goes on to the next element.
ComposeBodySkip(g, gpath, vfs, i, vout, rg) ==
    IF rg.panic THEN Panic(rg.st)
    ELSE IF rg.err # "nil" THEN ComposeLoop(g, gpath, vfs, i + 1, rg.st, vout)
    ELSE ComposeLoop(g, gpath, vfs, i + 1, Acc(rg, vout).st, Acc(rg, vout).s)

\* The body of that loop once g(vf) has returned rg.
ComposeBody(g, gpath, vfs, i, vout, rg) ==
    IF Failed(rg) THEN Abort(rg)
    ELSE ComposeLoop(g, gpath, vfs, i + 1, Acc(rg, vout).st, Acc(rg, vout).s)

(* A Compose that builds vout in the storage of vfs (vout := vfs[:0]): what  *)
(* the purity of a compiled filter must exclude.                            *)
ComposeRestReuse(g, gpath, rf) ==
    IF Failed(rf) THEN Abort(rf)
    ELSE ComposeLoop(g, gpath, rf.out, 1, rf.st, [rf.out EXCEPT !.len = 0])

\* Compose's closure, once f(v) has returned rf
ComposeRest(g, gpath, rf) ==
    IF Failed(rf) THEN Abort(rf)
    ELSE ComposeLoop(g, gpath, rf.out, 1, rf.st, NilSlice)

\* Compose's closure over f and g
Compose(st, f, g, path, v) ==
    ComposeRest(g, path \o <<2>>, Eval(f, path \o <<1>>, v, st))

\* The op of a Binary built by the parser, applied to one pair.
Apply2(fn, st, xv, yv) ==
    CASE fn = "index" -> IndexOp(st, xv, yv)
      [] fn = "sliceEnd" -> SliceOp(st, xv, Hole, yv)
      [] fn = "sliceBegin" -> SliceOp(st, xv, yv, Hole)
      [] fn = "add" -> Wrap(st, Add(xv, yv))
      [] fn = "sub" -> Wrap(st, Sub(xv, yv))
      [] OTHER -> NumOp(st, fn, xv, yv)

RECURSIVE BinaryLoop(_, _, _, _, _, _, _)
RECURSIVE BinaryBody(_, _, _, _, _, _, _)
\* Loops with yv as the outer and xv as the inner variable.
BinaryBodyColumns(fn, xvs, yvs, i, j, outs, r) ==
    IF Failed(r) THEN Abort(r)
    ELSE BinaryLoop(fn, xvs, yvs, i + 1, j, Acc(r, outs).st, Acc(r, outs).s)

BinaryLoopColumns(fn, xvs, yvs, i, j, st, outs) ==
    IF j > yvs.len THEN Ok(st, outs)
    ELSE IF i > xvs.len THEN BinaryLoop(fn, xvs, yvs, 1, j + 1, st, outs)
    ELSE BinaryBodyColumns(fn, xvs, yvs, i, j, outs,
             Apply2(fn, st, Contents(st.heap, xvs)[i], Contents(st.heap, yvs)[j]))

\* The nested range loops of Binary, at xvs[i] and yvs[j].
BinaryLoop(fn, xvs, yvs, i, j, st, outs) ==
    IF i > xvs.len THEN Ok(st, outs)
    ELSE IF j > yvs.len THEN BinaryLoop(fn, xvs, yvs, i + 1, 1, st, outs)
    ELSE BinaryBody(fn, xvs, yvs, i, j, outs,
             Apply2(fn, st, Contents(st.heap, xvs)[i], Contents(st.heap, yvs)[j]))

\* The body of the inner loop once op(xv, yv) has returned r.
BinaryBody(fn, xvs, yvs, i, j, outs, r) ==
    IF Failed(r) THEN Abort(r)
    ELSE BinaryLoop(fn, xvs, yvs, i, j + 1, Acc(r, outs).st, Acc(r, outs).s)

\* Binary's closure, once x(v) has returned rx and y(v), if called, ry
BinaryRest(fn, rx, ry) ==
    IF Failed(rx) THEN Abort(rx)
    ELSE IF Failed(ry) THEN Abort(ry)
    ELSE BinaryLoop(fn, rx.out, ry.out, 1, 1, ry.st, NilSlice)

\* y(v), called only when x(v) succeeded
Second(y, ypath, v, rx) == IF Failed(rx) THEN rx ELSE Eval(y, ypath, v, rx.st)

\* Binary's closure over x, y and op
BinaryXY(fn, y, ypath, v, rx) == BinaryRest(fn, rx, Second(y, ypath, v, rx))
Binary(st, x, y, fn, path, v) ==
    BinaryXY(fn, y, path \o <<2>>, v, Eval(x, path \o <<1>>, v, st))

RECURSIVE TernaryLoop(_, _, _, _, _, _, _, _)
RECURSIVE TernaryBody(_, _, _, _, _, _, _, _)
\* The nested range loops of Ternary (op is slice), at xvs[i], yvs[j], zvs[n].
TernaryLoop(xvs, yvs, zvs, i, j, n, st, outs) ==
    IF i > xvs.len THEN Ok(st, outs)
    ELSE IF j > yvs.len THEN TernaryLoop(xvs, yvs, zvs, i + 1, 1, 1, st, outs)
    ELSE IF n > zvs.len THEN TernaryLoop(xvs, yvs, zvs, i, j + 1, 1, st, outs)
    ELSE TernaryBody(xvs, yvs, zvs, i, j, n, outs,
             SliceOp(st, Contents(st.heap, xvs)[i], Contents(st.heap, yvs)[j],
                     Contents(st.heap, zvs)[n]))

\* The body of the innermost loop once op(xv, yv, zv) has returned r.
TernaryBody(xvs, yvs, zvs, i, j, n, outs, r) ==
    IF Failed(r) THEN Abort(r)
    ELSE TernaryLoop(xvs, yvs, zvs, i, j, n + 1, Acc(r, outs).st, Acc(r, outs).s)

\* Ternary's closure, once x(v), y(v) and z(v) have returned
TernaryRest(rx, ry, rz) ==
    IF Failed(rx) THEN Abort(rx)
    ELSE IF Failed(ry) THEN Abort(ry)
    ELSE IF Failed(rz) THEN Abort(rz)
    ELSE TernaryLoop(rx.out, ry.out, rz.out, 1, 1, 1, rz.st, NilSlice)

\* Ternary's closure over x, y, z and slice
TernaryYZ(z, zpath, v, rx, ry) == TernaryRest(rx, ry, Second(z, zpath, v, ry))
TernaryXY(y, z, path, v, rx) ==
    TernaryYZ(z, path \o <<3>>, v, rx, Second(y, path \o <<2>>, v, rx))
Ternary(st, x, y, z, path, v) ==
    TernaryXY(y, z, path, v, Eval(x, path \o <<1>>, v, st))

\* A Concat that returns y(v) followed by x(v).
ConcatRestSwapped(rx, ry) ==
    IF Failed(rx) THEN Abort(rx)
    ELSE IF Failed(ry) THEN Abort(ry)
    ELSE Ok(Acc([rx EXCEPT !.st = ry.st], CapToLen(ry.out)).st,
            Acc([rx EXCEPT !.st = ry.st], CapToLen(ry.out)).s)

\* Concat's closure, once x(v) has returned rx and y(v), if called, ry
ConcatRest(rx, ry) ==
    IF Failed(rx) THEN Abort(rx)
    ELSE IF Failed(ry) THEN Abort(ry)
    ELSE Ok(Acc(ry, CapToLen(rx.out)).st, Acc(ry, CapToLen(rx.out)).s)

\* Concat's closure over x and y
ConcatXY(y, ypath, v, rx) == ConcatRest(rx, Second(y, ypath, v, rx))
Concat(st, x, y, path, v) ==
    ConcatXY(y, path \o <<2>>, v, Eval(x, path \o <<1>>, v, st))

RECURSIVE ArrayLoop(_, _, _, _, _, _)
RECURSIVE ArrayBody(_, _, _, _, _, _)
\* The loop of the array constructor over exprs, from expression j.
ArrayLoop(exprs, path, v, j, st, results) ==
    IF j > Len(exprs) THEN
        (IF ToValue(GoSlice(Contents(st.heap, results))).err
         THEN Fail(st, "cannot represent as value")
         ELSE One(st, ToValue(GoSlice(Contents(st.heap, results))).v))
    ELSE ArrayBody(exprs, path, v, j, results, Eval(exprs[j], path \o <<j>>, v, st))

\* The body of that loop once expr(v) has returned r.
ArrayBody(exprs, path, v, j, results, r) ==
    IF Failed(r) THEN Abort(r)
    ELSE ArrayLoop(exprs, path, v, j + 1, Acc(r, results).st, Acc(r, results).s)

\* The closure parseArrayConstruct returns
ArrayConstruct(st, exprs, path, v) == ArrayLoop(exprs, path, v, 1, st, NilSlice)

\* The closure parseObjectConstruct returns for {}
EmptyObject(st) == OneMust(st, GoMap(EmptyMap))

\* The children visit descends into: attribute values in key order, then elements
\* The sequence s from its last element to its first.
Backward(s) == [j \in 1..Len(s) |-> s[Len(s) + 1 - j]]

\* The children of a visit that runs its loops from the last key and the
\* last index down.
ChildrenBackward(v) ==
    (IF ImplAttr(v) THEN Backward([j \in 1..Len(Keys(v)) |-> Attr(v, Keys(v)[j]).v]) ELSE <<>>)
    \o (IF ImplIndex(v) THEN Backward(Present(v)) ELSE <<>>)

Children(v) ==
    (IF ImplAttr(v) THEN [j \in 1..Len(Keys(v)) |-> Attr(v, Keys(v)[j]).v] ELSE <<>>)
    \o (IF ImplIndex(v) THEN Present(v) ELSE <<>>)

RECURSIVE Visit(_, _, _)
RECURSIVE VisitAll(_, _, _)
\* visit of walk: appends v and its descendants to outs; [heap, s]
Visit(h, outs, v) ==
    VisitAll(GoAppend(h, outs, <<v>>).heap, GoAppend(h, outs, <<v>>).s, Children(v))

VisitAll(h, outs, vs) ==
    IF Len(vs) = 0 THEN [heap |-> h, s |-> outs]
    ELSE VisitAll(Visit(h, outs, Head(vs)).heap, Visit(h, outs, Head(vs)).s, Tail(vs))

\* walk
Walk(st, v) == Made(st, Visit(st.heap, NilSlice, v))

\* MapError(neg)
MapErrorNeg(st, v) == Wrap(st, Neg(v))

RECURSIVE Product(_)
\* The product of the lengths in ns.
Product(ns) == IF Len(ns) = 0 THEN 1 ELSE Head(ns) * Product(Tail(ns))

(* The t-th tuple (t from 0) of the Cartesian product of the lists ls, in   *)
(* lexicographic order with the last list varying fastest.                  *)
TupleAt(ls, t) ==
    [i \in 1..Len(ls) |->
        LET after == Product([j \in 1..(Len(ls) - i) |-> Len(ls[i + j])])
        IN ls[i][((t \div after) % Len(ls[i])) + 1]]

RECURSIVE NaryGather(_, _, _, _, _, _)
RECURSIVE NaryGathered(_, _, _, _, _, _)
\* Nary: evaluates fs[j..] on v in order, collecting the lists; [r, ls]
NaryGather(fs, path, v, j, st, ls) ==
    IF j > Len(fs) THEN [r |-> Ok(st, NilSlice), ls |-> ls]
    ELSE NaryGathered(fs, path, v, j, ls, Eval(fs[j], path \o <<j>>, v, st))

NaryGathered(fs, path, v, j, ls, r) ==
    IF Failed(r) THEN [r |-> r, ls |-> ls]
    ELSE NaryGather(fs, path, v, j + 1, r.st, Append(ls, Contents(r.st.heap, r.out)))

RECURSIVE NaryLoop(_, _, _, _)
RECURSIVE NaryBody(_, _, _, _)
\* Nary: op (constructObject) on the tuples from the t-th on.
NaryLoop(ls, t, st, outs) ==
    IF t >= Product([i \in 1..Len(ls) |-> Len(ls[i])]) THEN Ok(st, outs)
    ELSE NaryBody(ls, t, outs, ConstructObject(st, TupleAt(ls, t)))

NaryBody(ls, t, outs, r) ==
    IF Failed(r) THEN Abort(r)
    ELSE NaryLoop(ls, t + 1, Acc(r, outs).st, Acc(r, outs).s)

\* Nary, once the operands have been evaluated
NaryRest(g) == IF Failed(g.r) THEN Abort(g.r) ELSE NaryLoop(g.ls, 0, g.r.st, NilSlice)

\* Nary(fs, constructObject)
Nary(st, fs, path, v) == NaryRest(NaryGather(fs, path, v, 1, st, <<>>))

\* Eval, once the call has been logged
Dispatch(f, path, v, st) ==
    CASE f.op = "id" -> Id(st, v)
      [] f.op = "literal" -> Literal(st, f.s)
      [] f.op = "attrLit" -> AttrLit(st, f.lit, f.required, v)
      [] f.op = "iterate" -> Iterate(st, v)
      [] f.op = "iterateOpt" -> IterateOpt(st, v)
      [] f.op = "walk" -> Walk(st, v)
      [] f.op = "neg" -> MapErrorNeg(st, v)
      [] f.op = "emptyObject" -> EmptyObject(st)
      [] f.op = "compose" -> Compose(st, f.f, f.g, path, v)
      [] f.op = "concat" -> Concat(st, f.x, f.y, path, v)
      [] f.op = "binary" -> Binary(st, f.x, f.y, f.fn, path, v)
      [] f.op = "ternary" -> Ternary(st, f.x, f.y, f.z, path, v)
      [] f.op = "array" -> ArrayConstruct(st, f.exprs, path, v)
      [] f.op = "nary" -> Nary(st, f.fs, path, v)

\* The application f(v) of the filter at `path`; the call is logged in st.calls.
Eval(f, path, v, st) ==
    Dispatch(f, path, v, [st EXCEPT !.calls = Append(@, [path |-> path, v |-> v])])

(***************************************************************************)
(* Compilation.  The parser builds the filter tree out of the combinators; *)
(* the operators below are the trees it builds for each form of the        *)
(* grammar, with Literal nodes not yet allocated.  Build performs the      *)
(* Literal calls: each allocates the slice s := []Value{v} once.           *)
(***************************************************************************)
Dot == [op |-> "id"]
Lit(v) == [op |-> "literal", v |-> v]
Pipe(f, g) == [op |-> "compose", f |-> f, g |-> g]
Comma(x, y) == [op |-> "concat", x |-> x, y |-> y]
Bin(fn, x, y) == [op |-> "binary", fn |-> fn, x |-> x, y |-> y]
Field(base, lit) == Pipe(base, [op |-> "attrLit", lit |-> lit, required |-> TRUE])
FieldOpt(base, lit) == Pipe(base, [op |-> "attrLit", lit |-> lit, required |-> FALSE])
Iter(base) == Pipe(base, [op |-> "iterate"])
IterOpt(base) == Pipe(base, [op |-> "iterateOpt"])
IndexAt(base, idx) == Bin("index", base, idx)
SliceTo(base, end) == Bin("sliceEnd", base, end)
SliceFrom(base, begin) == Bin("sliceBegin", base, begin)
SliceBoth(base, begin, end) == [op |-> "ternary", x |-> base, y |-> begin, z |-> end]
Minus(f) == Pipe(f, [op |-> "neg"])
DotDot == [op |-> "walk"]
Arr(exprs) == [op |-> "array", exprs |-> exprs]
Obj(fs) == IF Len(fs) = 0 THEN [op |-> "emptyObject"] ELSE [op |-> "nary", fs |-> fs]

RECURSIVE Build(_, _)
RECURSIVE BuildSeq(_, _)
\* [t, heap]: the tree with its Literal slices allocated in heap h
Build(t, h) ==
    CASE t.op = "literal" ->
           LET a == MakeSlice(h, <<t.v>>, 1)
           IN [t |-> [op |-> "literal", v |-> t.v, s |-> a.s], heap |-> a.heap]
      [] t.op = "compose" ->
           LET b == BuildSeq(<<t.f, t.g>>, h)
           IN [t |-> [t EXCEPT !.f = b.ts[1], !.g = b.ts[2]], heap |-> b.heap]
      [] t.op \in {"concat", "binary"} ->
           LET b == BuildSeq(<<t.x, t.y>>, h)
           IN [t |-> [t EXCEPT !.x = b.ts[1], !.y = b.ts[2]], heap |-> b.heap]
      [] t.op = "ternary" ->
           LET b == BuildSeq(<<t.x, t.y, t.z>>, h)
           IN [t |-> [t EXCEPT !.x = b.ts[1], !.y = b.ts[2], !.z = b.ts[3]],
               heap |-> b.heap]
      [] t.op = "array" ->
           LET b == BuildSeq(t.exprs, h)
           IN [t |-> [t EXCEPT !.exprs = b.ts], heap |-> b.heap]
      [] t.op = "nary" ->
           LET b == BuildSeq(t.fs, h)
           IN [t |-> [t EXCEPT !.fs = b.ts], heap |-> b.heap]
      [] OTHER -> [t |-> t, heap |-> h]

BuildSeq(ts, h) ==
    IF Len(ts) = 0 THEN [ts |-> <<>>, heap |-> h]
    ELSE LET b == Build(Head(ts), h)
             rest == BuildSeq(Tail(ts), b.heap)
         IN [ts |-> <<b.t>> \o rest.ts, heap |-> rest.heap]

RECURSIVE Literals(_)
\* The Literal nodes of a built tree.
Literals(t) ==
    CASE t.op = "literal" -> {t}
      [] t.op = "compose" -> Literals(t.f) \cup Literals(t.g)
      [] t.op \in {"concat", "binary"} -> Literals(t.x) \cup Literals(t.y)
      [] t.op = "ternary" -> Literals(t.x) \cup Literals(t.y) \cup Literals(t.z)
      [] t.op = "array" -> UNION {Literals(t.exprs[j]) : j \in 1..Len(t.exprs)}
      [] t.op = "nary" -> UNION {Literals(t.fs[j]) : j \in 1..Len(t.fs)}
      [] OTHER -> {}

(***************************************************************************)
(* The programs and the input values explored.                             *)
(***************************************************************************)
Sa == <<1>>
Sb == <<2>>
Sc == <<3>>
Sx == <<24>>

Programs ==
    { Dot,                                               \* .
      Lit(Num(1)),                                       \* 1
      Field(Dot, Sx),                                    \* .x
      FieldOpt(Dot, Sx),                                 \* .x?
      Iter(Dot),                                         \* .[]
      IterOpt(Dot),                                      \* .[]?
      DotDot,                                            \* ..
      IndexAt(Dot, Lit(Num(0))),                         \* .[0]
      IndexAt(Dot, Minus(Lit(Num(1)))),                  \* .[-1]
      IndexAt(Dot, Lit(StrV(Sx))),                       \* .["x"]
      IndexAt(Dot, Comma(Lit(Num(1)), Lit(Num(0)))),     \* .[(1, 0)]
      IndexAt(Dot, Bin("div", Lit(Num(1)), Lit(Num(0)))),  \* .[1 / 0]
      SliceFrom(Dot, Lit(Num(1))),                       \* .[1:]
      SliceTo(Dot, Lit(Num(1))),                         \* .[:1]
      SliceTo(Dot, Lit(StrV(Sa))),                       \* .[:"a"]
      SliceBoth(Dot, Lit(Num(1)), Minus(Lit(Num(1)))),   \* .[1:-1]
      SliceBoth(Dot, Lit(Num(2)), Lit(Num(1))),          \* .[2:1]
      SliceFrom(Dot, Bin("div", Lit(Num(1)), Lit(Num(0)))),  \* .[1 / 0:]
      Pipe(Comma(Lit(Num(1)), Lit(Num(2))), Lit(Num(3))),  \* 1, 2 | 3
      Pipe(Iter(Dot), IndexAt(Dot, Lit(Num(0)))),        \* .[] | .[0]
      Pipe(IndexAt(Dot, Lit(StrV(Sx))), Lit(Num(1))),    \* .["x"] | 1
      Pipe(Lit(Num(1)), Bin("add", Dot, Lit(Num(1)))),   \* 1 | . + 1
      Comma(Iter(Dot), Iter(Dot)),                       \* .[], .[]
      Comma(Lit(Num(1)), Dot),                           \* 1, .
      Comma(Lit(Num(1)), IterOpt(Dot)),                  \* 1, .[]?
      Comma(Iter(Dot), Lit(Num(1))),                     \* .[], 1
      Comma(Lit(Num(1)), Iter(Dot)),                     \* 1, .[]
      Arr(<<>>),                                         \* []
      Arr(<<Dot, Dot>>),                                 \* [., .]
      Obj(<<>>),                                         \* {}
      Obj(<<Lit(StrV(Sa)), Lit(Num(1))>>),               \* {a: 1}
      Obj(<<Comma(Lit(StrV(Sa)), Lit(StrV(Sb))),
            Comma(Lit(Num(1)), Lit(Num(2)))>>),          \* {("a", "b"): (1, 2)}
      Obj(<<Lit(Num(1)), Lit(Num(2))>>),                 \* {(1): 2}
      Bin("add", Dot, Dot),                              \* . + .
      Bin("sub", Dot, IndexAt(Dot, Lit(Num(0)))),        \* . - .[0]
      Bin("sub", Dot, Arr(<<Lit(StrV(Sb))>>)),           \* . - ["b"]
      Bin("add", Iter(Dot), Lit(StrV(Sx))),              \* .[] + "x"
      Bin("mod", Bin("div", Lit(Num(12)), Lit(Num(2))), Lit(Num(4))),  \* 12 / 2 % 4
      Bin("mul", Lit(StrV(Sa)), Lit(StrV(Sb))),          \* "a" * "b"
      Bin("mul", Comma(Lit(Num(2)), Lit(Num(3))), Comma(Dot, Lit(Num(5))))  \* (2, 3) * (., 5)
    }

RawA == RawStr(Sa)
RawB == RawStr(Sb)
RawN(n) == RawNum(Rat(n, 1))

Inputs ==
    { Decode(RawNil),                                        \* null
      Decode(RawN(12)),                                      \* 12
      Decode(RawStr(<<1, 2, 3>>)),                           \* "abc"
      Decode(RawMap(Sx :> RawN(12))),                        \* {"x": 12}
      Decode(RawSlice(<<RawA, RawB>>)),                      \* ["a", "b"]
      Decode(RawSlice(<<RawSlice(<<RawA>>), RawB>>)),        \* [["a"], "b"]
      Decode(RawSlice(<<RawB, RawSlice(<<RawA>>)>>)),        \* ["b", ["a"]]
      Decode(RawSlice(<<RawSlice(<<RawA>>), RawSlice(<<RawB>>)>>)),  \* [["a"], ["b"]]
      Decode(RawMap(Sa :> RawSlice(<<RawSlice(<<RawN(1)>>), RawSlice(<<RawN(2)>>)>>)
                    @@ Sb :> RawN(3))),                      \* {"a": [[1], [2]], "b": 3}
      ArrV(<<StrV(Sa), Hole, StrV(Sc)>>)                     \* an indexType with a hole
    }

(***************************************************************************)
(* SpecApply: a caller compiles one program and applies the filter to      *)
(* inputs, keeping what each application returned.  Each entry of history  *)
(* records the input v, the heap before the call (h0), the slice returned  *)
(* (out), its contents when it was returned (vs), err, panic and the log   *)
(* of filter calls made.                                                   *)
(***************************************************************************)
NoValue == Hole

\* The state shared by both specifications when a program has been compiled.
Compiled(p) ==
    /\ release \in Releases
    /\ prog = Build(p, <<>>).t
    /\ heap = Build(p, <<>>).heap
    /\ satArch \in BOOLEAN

SiftIdle ==
    /\ pc = "idle"
    /\ ndec = 0
    /\ vin = NoValue
    /\ vouts = NilSlice
    /\ vi = 0
    /\ ret = ""
    /\ trace = <<>>
    /\ scanner = NoValue

InitApply ==
    /\ \E p \in Programs : Compiled(p)
    /\ history = <<>>
    /\ SiftIdle

\* f(v) on heap h
Run(f, v, h, sat) == Eval(f, <<>>, v, [heap |-> h, calls |-> <<>>, sat |-> sat])

\* The caller's record of the application of prog to v that returned r.
Applied(v, r) ==
    /\ heap' = r.st.heap
    /\ history' = Append(history,
           [v |-> v, h0 |-> heap, out |-> r.out, vs |-> Contents(r.st.heap, r.out),
            err |-> r.err, panic |-> r.panic, calls |-> r.st.calls])

Apply(v) ==
    /\ Len(history) < MaxApply
    /\ Applied(v, Run(prog, v, heap, satArch))
    /\ UNCHANGED <<scanner, prog, satArch, release, pc, ndec, vin, vouts, vi, ret, trace>>

NextApply == \E v \in Inputs : Apply(v)

SpecApply == InitApply /\ [][NextApply]_vars

(***************************************************************************)
(* Spec: Sift(dec, f, enc) with f the compiled program.  The decoder and   *)
(* the encoder are the caller's: each Decode returns a value, io.EOF or    *)
(* another error, and each Encode succeeds or returns an error.  trace     *)
(* records every call Sift makes, in order:                                *)
(*   [call |-> "Decode", v, err]        err is "nil", "EOF" or the error   *)
(*   [call |-> "Filter", v, outs, err, panic]                              *)
(*   [call |-> "Encode", v, err]                                           *)
(***************************************************************************)
DecodeValues ==
    { Decode(RawN(12)),
      Decode(RawMap(Sx :> RawN(12))),
      Decode(RawSlice(<<RawA, RawB>>)),
      Decode(RawSlice(<<RawSlice(<<RawA>>), RawB>>)) }

DecodeErrors == {"unexpected EOF"}
EncodeErrors == {"encode error"}

Init ==
    /\ \E p \in Programs : Compiled(p)
    /\ history = <<>>
    /\ pc = "decode"
    /\ ndec = 0
    /\ vin = NoValue
    /\ vouts = NilSlice
    /\ vi = 0
    /\ ret = ""
    /\ trace = <<>>
    /\ scanner = NoValue

\* A Decode step that hands io.EOF back to the caller instead of nil.
SiftDecodeEOF(v, err) ==
    /\ pc = "decode"
    /\ ndec' = ndec + 1
    /\ trace' = Append(trace, [call |-> "Decode", v |-> v, err |-> err])
    /\ IF err # "nil" THEN pc' = "done" /\ ret' = err /\ vin' = vin
       ELSE pc' = "filter" /\ ret' = ret /\ vin' = v
    /\ UNCHANGED <<scanner, heap, prog, satArch, release, history, vouts, vi>>

\* vin, err := dec.Decode(), and the tests of err that follow
SiftDecode(v, err) ==
    /\ pc = "decode"
    /\ ndec' = ndec + 1
    /\ trace' = Append(trace, [call |-> "Decode", v |-> v, err |-> err])
    /\ IF err = "EOF" THEN pc' = "done" /\ ret' = "nil" /\ vin' = vin
       ELSE IF err # "nil" THEN pc' = "done" /\ ret' = err /\ vin' = vin
       ELSE pc' = "filter" /\ ret' = ret /\ vin' = v
    /\ UNCHANGED <<scanner, heap, prog, satArch, release, history, vouts, vi>>

\* A driver that treats a filter error as an empty output and reads on.
SiftFilteredOn(r) ==
    /\ heap' = r.st.heap
    /\ trace' = Append(trace,
           [call |-> "Filter", v |-> vin, outs |-> Contents(r.st.heap, r.out),
            err |-> r.err, panic |-> r.panic])
    /\ IF r.panic THEN pc' = "panic" /\ ret' = ret /\ vouts' = vouts /\ vi' = vi
       ELSE /\ vouts' = r.out
            /\ vi' = 1
            /\ ret' = ret
            /\ pc' = IF r.out.len >= 1 THEN "encode" ELSE "decode"

\* The test of err after f(vin) returned r, and the entry of the range loop
SiftFiltered(r) ==
    /\ heap' = r.st.heap
    /\ trace' = Append(trace,
           [call |-> "Filter", v |-> vin, outs |-> Contents(r.st.heap, r.out),
            err |-> r.err, panic |-> r.panic])
    /\ IF r.panic THEN pc' = "panic" /\ ret' = ret /\ vouts' = vouts /\ vi' = vi
       ELSE IF r.err # "nil" THEN
           pc' = "done" /\ ret' = r.err /\ vouts' = r.out /\ vi' = vi
       ELSE /\ vouts' = r.out
            /\ vi' = 1
            /\ ret' = ret
            /\ pc' = IF r.out.len >= 1 THEN "encode" ELSE "decode"

\* vouts, err := f(vin)
SiftFilter ==
    /\ pc = "filter"
    /\ SiftFiltered(Run(prog, vin, heap, satArch))
    /\ UNCHANGED <<scanner, prog, satArch, release, history, ndec, vin>>

\* An Encode step that returns to Decode after the first output of an input.
SiftEncodeFirst(err) ==
    /\ pc = "encode"
    /\ trace' = Append(trace,
           [call |-> "Encode", v |-> Contents(heap, vouts)[vi], err |-> err])
    /\ IF err # "nil" THEN pc' = "done" /\ ret' = err /\ vi' = vi
       ELSE vi' = vi + 1 /\ ret' = ret /\ pc' = "decode"
    /\ UNCHANGED <<scanner, heap, prog, satArch, release, history, ndec, vin, vouts>>

\* An Encode step that ignores the encoder's error and goes on.
SiftEncodeOn(err) ==
    /\ pc = "encode"
    /\ trace' = Append(trace,
           [call |-> "Encode", v |-> Contents(heap, vouts)[vi], err |-> err])
    /\ vi' = vi + 1
    /\ ret' = ret
    /\ pc' = IF vi + 1 > vouts.len THEN "decode" ELSE "encode"
    /\ UNCHANGED <<scanner, heap, prog, satArch, release, history, ndec, vin, vouts>>

\* One iteration of the range loop: enc.Encode(vout) and the test of its error
SiftEncode(err) ==
    /\ pc = "encode"
    /\ trace' = Append(trace,
           [call |-> "Encode", v |-> Contents(heap, vouts)[vi], err |-> err])
    /\ IF err # "nil" THEN pc' = "done" /\ ret' = err /\ vi' = vi
       ELSE /\ vi' = vi + 1
            /\ ret' = ret
            /\ pc' = IF vi + 1 > vouts.len THEN "decode" ELSE "encode"
    /\ UNCHANGED <<scanner, heap, prog, satArch, release, history, ndec, vin, vouts>>

DecodeStep ==
    \/ \E v \in DecodeValues : ndec < MaxInputs /\ SiftDecode(v, "nil")
    \/ \E e \in {"EOF"} \cup DecodeErrors : SiftDecode(NoValue, e)

EncodeStep == \E e \in {"nil"} \cup EncodeErrors : SiftEncode(e)

Next == DecodeStep \/ SiftFilter \/ EncodeStep

Spec == Init /\ [][Next]_vars

(***************************************************************************)
(* SpecOnce: one filter of a family of small programs (field access,       *)
(* iteration, recursive descent, indexing and slicing with literal         *)
(* operands, array addition) is compiled and applied once to one value.    *)
(* The values include ones a JSON decoder never produces: arrays with      *)
(* holes and the basic types of ToValue.                                   *)
(***************************************************************************)
\* The expression the parser builds for the number literal r (-r is Minus).
NumExpr(r) == IF r.s < 0 THEN Minus(Lit(NumV(FNeg(r)))) ELSE Lit(NumV(r))

Infinity == Bin("div", Lit(Num(1)), Lit(Num(0)))     \* 1 / 0

IndexNumbers ==
    { Rat(n, 1) : n \in -4..3 }
    \cup { Rat(1, 2), Rat(-1, 2), Rat(3, 2), MaxFloat64, FNeg(MaxFloat64),
           Float(1, <<1>>, 40), Float(1, <<1>>, 63),   \* 2^40, 2^63
           Float(1, <<4413, 18625, 17763>>, 19) }      \* 1e19

BoundNumbers ==
    { Rat(n, 1) : n \in {-4, -1, 0, 1, 2, 4} }
    \cup { Rat(19, 10), Rat(-1, 2), Rat(-3, 2), MaxFloat64 }

OncePrograms ==
    { Field(Dot, Sx), FieldOpt(Dot, Sx), Iter(Dot), IterOpt(Dot), DotDot,
      IndexAt(Dot, Infinity), SliceFrom(Dot, Infinity), SliceTo(Dot, Infinity),
      Bin("add", IndexAt(Dot, Lit(Num(0))), IndexAt(Dot, Lit(Num(1)))) }  \* .[0] + .[1]
    \cup { IndexAt(Dot, NumExpr(e)) : e \in IndexNumbers }
    \cup { SliceFrom(Dot, NumExpr(b)) : b \in BoundNumbers }
    \cup { SliceTo(Dot, NumExpr(e)) : e \in BoundNumbers }
    \cup { SliceBoth(Dot, NumExpr(b), NumExpr(e)) : b, e \in BoundNumbers }

OnceValues ==
    { Decode(RawNil),                                        \* null
      Decode(RawBool(TRUE)),                                 \* true
      Decode(RawN(12)),                                      \* 12
      Decode(RawStr(<<1, 2, 3>>)),                           \* "abc"
      Decode(RawMap(Sx :> RawN(12))),                        \* {"x": 12}
      Decode(RawMap(Sa :> RawSlice(<<RawSlice(<<RawN(1)>>), RawSlice(<<RawN(2)>>)>>)
                    @@ Sb :> RawN(3))),                      \* {"a": [[1], [2]], "b": 3}
      Decode(RawSlice(<<>>)),                                \* []
      Decode(RawSlice(<<RawA, RawB>>)),                      \* ["a", "b"]
      Decode(RawSlice(<<RawA, RawB, RawStr(Sc)>>)),          \* ["a", "b", "c"]
      Decode(RawSlice(<<RawSlice(<<RawA>>), RawSlice(<<RawB, RawStr(Sc)>>)>>)),
                                                             \* [["a"], ["b", "c"]]
      Decode(RawSlice(<<RawSlice(<<RawA, RawB>>), RawSlice(<<>>)>>)),
                                                             \* [["a", "b"], []]
      NullValue, BoolV(FALSE), Num(1), StrV(Sa),
      ObjV(Sx :> ArrV(<<Hole, Num(1)>>)),                    \* {x: [<hole>, 1]}
      ArrV(<<StrV(Sa), Hole, StrV(Sc)>>),                    \* ["a", <hole>, "c"]
      ArrV(<<StrV(Sa), NullValue, StrV(Sc)>>),               \* ["a", null, "c"]
      ArrV(<<ArrV(<<StrV(Sa), Hole>>), ArrV(<<Hole, StrV(Sb)>>)>>)
                                                             \* [["a", <hole>], [<hole>, "b"]]
    }

InitOnce ==
    /\ \E p \in OncePrograms : Compiled(p)
    /\ history = <<>>
    /\ SiftIdle

ApplyOnce(v) ==
    /\ Len(history) = 0
    /\ Applied(v, Run(prog, v, heap, satArch))
    /\ UNCHANGED <<scanner, prog, satArch, release, pc, ndec, vin, vouts, vi, ret, trace>>

NextOnce == \E v \in OnceValues : ApplyOnce(v)

SpecOnce == InitOnce /\ [][NextOnce]_vars

(***************************************************************************)
(* Comparisons: a caller compares values with Equal (specification          *)
(* SpecEqual).                                                              *)
(***************************************************************************)
\* Values of both representations: as the JSON decoder returns them and as
\* ToValue and the filters build them.
EqualValues ==
    { Decode(RawNil),                                        \* null
      Decode(RawBool(TRUE)),                                 \* true
      Decode(RawN(12)),                                      \* 12
      Decode(RawN(13)),                                      \* 13
      Decode(RawA),                                          \* "a"
      Decode(RawMap(Sx :> RawN(12))),                        \* {"x": 12}
      Decode(RawSlice(<<RawN(12)>>)),                        \* [12]
      NullValue, BoolV(TRUE), Num(0), Num(12), Num(13), NumV(NaN),
      StrV(Sa), StrV(Sb),
      ObjV(Sx :> Num(12)), ObjV(Sx :> Num(13)),
      ArrV(<<Num(12)>>), ArrV(<<Hole>>), ArrV(<<NullValue>>) }

InitEqual ==
    /\ prog = Dot
    /\ heap = <<>>
    /\ satArch = FALSE
    /\ release = 22
    /\ history = <<>>
    /\ SiftIdle

\* The caller's record of the comparisons of l, r and m.
Compare(l, r, m) ==
    /\ Len(history) = 0
    /\ history' = <<[l |-> l, r |-> r, m |-> m,
                     ll |-> Equal(l, l), lr |-> Equal(l, r), rl |-> Equal(r, l),
                     rm |-> Equal(r, m), lm |-> Equal(l, m)]>>
    /\ UNCHANGED <<scanner, heap, prog, satArch, release, pc, ndec, vin, vouts, vi, ret, trace>>

NextEqual == \E l, r, m \in EqualValues : Compare(l, r, m)

SpecEqual == InitEqual /\ [][NextEqual]_vars

(***************************************************************************)
(* The JSON encoder: a caller encodes one value (specification SpecEncode). *)
(***************************************************************************)
\* The error of the first result of rs that has one, "nil" when none has.
FirstErr(rs) ==
    IF \A j \in 1..Len(rs) : rs[j].err = "nil" THEN "nil"
    ELSE rs[CHOOSE j \in 1..Len(rs) :
                /\ rs[j].err # "nil"
                /\ \A l \in 1..(j - 1) : rs[l].err = "nil"].err

\* The end of toJSONValue for an Index whose elements gave the results rs.
JSONList(rs) ==
    IF FirstErr(rs) # "nil" THEN [i |-> RawNil, err |-> FirstErr(rs)]
    ELSE [i |-> RawSlice([j \in 1..Len(rs) |-> rs[j].i]), err |-> "nil"]

\* The end of toJSONValue for an Attr of keys ks whose values gave rs.
JSONMap(ks, rs) ==
    IF FirstErr(rs) # "nil" THEN [i |-> RawNil, err |-> FirstErr(rs)]
    ELSE [i |-> RawMap([key \in { ks[j].s : j \in 1..Len(ks) } |->
                           rs[CHOOSE j \in 1..Len(ks) : ks[j].s = key].i]),
          err |-> "nil"]

RECURSIVE ToJSONValue(_)
\* toJSONValue: [i, err]
ToJSONValue(v) ==
    IF v.k = "jscalar" THEN [i |-> v.i, err |-> "nil"]
    ELSE IF IsNull(v) THEN [i |-> RawNil, err |-> "nil"]
    ELSE IF v.k = "bool" THEN [i |-> RawBool(v.b), err |-> "nil"]
    ELSE IF AsFloat64(v).ok THEN [i |-> RawNum(AsFloat64(v).f), err |-> "nil"]
    ELSE IF AsString(v).ok THEN [i |-> RawStr(AsString(v).s), err |-> "nil"]
    ELSE IF ImplAttr(v) THEN
        JSONMap(Keys(v),
                [j \in 1..Len(Keys(v)) |->
                    IF ~Attr(v, Keys(v)[j]).ok THEN [i |-> RawNil, err |-> "no value for key"]
                    ELSE ToJSONValue(Attr(v, Keys(v)[j]).v)])
    ELSE IF ImplIndex(v) THEN
        JSONList([j \in 1..IndexLength(v) |->
                    IF ~Index(v, j - 1).ok THEN [i |-> RawNil, err |-> "value at index missing"]
                    ELSE ToJSONValue(Index(v, j - 1).v)])
    ELSE [i |-> RawNil, err |-> "cannot represent value in JSON"]

RECURSIVE Marshals(_)
\* json.Encoder.Encode accepts the datum i: it holds no NaN and no infinity.
Marshals(i) ==
    CASE i.t = "float64" -> IsFinite(i.f)
      [] i.t = "map" -> \A key \in DOMAIN i.m : Marshals(i.m[key])
      [] i.t = "slice" -> \A j \in 1..Len(i.e) : Marshals(i.e[j])
      [] OTHER -> TRUE

\* The end of encoder.Encode for the result r of toJSONValue: [i, err], i the
\* datum written.
Encoded(r) ==
    IF r.err # "nil" THEN r
    ELSE IF ~Marshals(r.i) THEN [i |-> RawNil, err |-> "json: unsupported value"]
    ELSE r

\* encoder.Encode
EncodeJSON(v) == Encoded(ToJSONValue(v))

\* The elements of the Arrays that are encoded; Hole is an absent element.
EncodeElems ==
    { Hole, NullValue, BoolV(TRUE), Num(1), NumV(NaN), StrV(Sa),
      ArrV(<<>>), ArrV(<<Hole>>), ArrV(<<Num(1)>>), ObjV(Sx :> Num(1)) }

EncodeValues ==
    (EncodeElems \ {Hole})
    \cup { ArrV(<<x>>) : x \in EncodeElems }
    \cup { ArrV(<<x, y>>) : x, y \in EncodeElems }
    \cup { ObjV(Sx :> ArrV(<<x>>)) : x \in EncodeElems }
    \cup { Decode(RawNil), Decode(RawN(12)), Decode(RawA),
           Decode(RawSlice(<<RawNil, RawN(12)>>)),
           Decode(RawMap(Sx :> RawSlice(<<RawA>>))) }

InitEncode ==
    /\ prog = Dot
    /\ heap = <<>>
    /\ satArch = FALSE
    /\ release = 22
    /\ history = <<>>
    /\ SiftIdle

\* The caller's record of the encoding of v.
Encode(v) ==
    /\ Len(history) = 0
    /\ history' = <<[v |-> v, i |-> EncodeJSON(v).i, err |-> EncodeJSON(v).err]>>
    /\ UNCHANGED <<scanner, heap, prog, satArch, release, pc, ndec, vin, vouts, vi, ret, trace>>

NextEncode == \E v \in EncodeValues : Encode(v)

SpecEncode == InitEncode /\ [][NextEncode]_vars

(***************************************************************************)
(* The scanner of filter/jq (scanner.go).  A source is a sequence of       *)
(* bytes; the bytes modelled are ASCII, NUL and 255 (a byte that is not    *)
(* valid UTF-8).  A scanner is a record of the fields src, ch, offset and  *)
(* rdOffset of the struct, with one more field, err, that holds the        *)
(* message of a scanError panic in flight ("nil" when there is none): a    *)
(* panicking step leaves the fields as they were when panicf was called,   *)
(* and every later step of the same call is skipped.                       *)
(***************************************************************************)
Ascii ==
    << " ", "!", "\"", "#", "$", "%", "&", "'", "(", ")", "*", "+", ",", "-",
       ".", "/", "0", "1", "2", "3", "4", "5", "6", "7", "8", "9", ":", ";",
       "<", "=", ">", "?", "@", "A", "B", "C", "D", "E", "F", "G", "H", "I",
       "J", "K", "L", "M", "N", "O", "P", "Q", "R", "S", "T", "U", "V", "W",
       "X", "Y", "Z", "[", "\\", "]", "^", "_", "grave", "a", "b", "c", "d", "e",
       "f", "g", "h", "i", "j", "k", "l", "m", "n", "o", "p", "q", "r", "s",
       "t", "u", "v", "w", "x", "y", "z", "{", "|", "}", "~" >>

CodeOf ==
    [c \in {Ascii[j] : j \in 1..Len(Ascii)} |->
        31 + (CHOOSE j \in 1..Len(Ascii) : Ascii[j] = c)]

\* The rune of a character literal of the source, 'c'.
Ch(c) == CodeOf[c]

\* The control characters the scanner names, and the two bytes it rejects.
Control ==
    [nul |-> 0, bs |-> 8, ht |-> 9, lf |-> 10, vt |-> 11, ff |-> 12,
     cr |-> 13, bad |-> 255, eof |-> -1]

RECURSIVE Bytes(_)
\* []byte(text) for a text given as a sequence of one-character strings.
Bytes(cs) == IF Len(cs) = 0 THEN <<>> ELSE <<Ch(Head(cs))>> \o Bytes(Tail(cs))

\* &scanner{file: file, src: src, ch: ' '}
Scanner(src) ==
    [src |-> src, ch |-> Ch(" "), offset |-> 0, rdOffset |-> 0, err |-> "nil"]

\* s.panicf(offset, message)
Panicf(s, message) == [s EXCEPT !.err = message]

\* A next that moves on at the end of the source too.
ScannerNextPastEnd(s) ==
    IF s.err # "nil" THEN s
    ELSE IF s.rdOffset < Len(s.src) /\ s.src[s.rdOffset + 1] \in {Control.nul, Control.bad}
    THEN Panicf([s EXCEPT !.offset = s.rdOffset], "illegal character")
    ELSE [s EXCEPT !.offset = s.rdOffset,
                   !.rdOffset = s.rdOffset + 1,
                   !.ch = IF s.rdOffset < Len(s.src)
                          THEN s.src[s.rdOffset + 1] ELSE Control.eof]

RuneSelf == 128      \* utf8.RuneSelf: bytes below it are one-byte runes
RuneError == 65533   \* utf8.RuneError, U+FFFD
MaxRune == 1114111   \* utf8.MaxRune, U+10FFFF
Bom == 65279         \* bom, U+FEFF

\* The result of utf8.DecodeRune for an invalid encoding.
BadRune == [r |-> RuneError, w |-> 1]

\* The number of bytes the first byte b0 announces; 0 when b0 starts no rune.
RuneSize(b0) ==
    IF b0 < RuneSelf THEN 1
    ELSE IF b0 < 194 THEN 0
    ELSE IF b0 < 224 THEN 2
    ELSE IF b0 < 240 THEN 3
    ELSE IF b0 < 245 THEN 4
    ELSE 0

\* The range utf8 accepts for the second byte after b0 (acceptRanges).
AcceptsSecond(b0, b1) ==
    /\ (IF b0 = 224 THEN 160 ELSE IF b0 = 240 THEN 144 ELSE 128) <= b1
    /\ b1 <= (IF b0 = 237 THEN 159 ELSE IF b0 = 244 THEN 143 ELSE 191)

\* A continuation byte, 10xxxxxx.
IsContinuation(b) == 128 <= b /\ b <= 191

\* utf8.DecodeRune(p[i:]) for i < len(p), as [r, w].
DecodeRune(p, i) ==
    IF RuneSize(p[i + 1]) = 1 THEN [r |-> p[i + 1], w |-> 1]
    ELSE IF RuneSize(p[i + 1]) = 0 \/ i + RuneSize(p[i + 1]) > Len(p) THEN BadRune
    ELSE IF ~AcceptsSecond(p[i + 1], p[i + 2]) THEN BadRune
    ELSE IF RuneSize(p[i + 1]) = 2
    THEN [r |-> (p[i + 1] % 32) * 64 + (p[i + 2] % 64), w |-> 2]
    ELSE IF ~IsContinuation(p[i + 3]) THEN BadRune
    ELSE IF RuneSize(p[i + 1]) = 3
    THEN [r |-> (p[i + 1] % 16) * 4096 + (p[i + 2] % 64) * 64 + (p[i + 3] % 64),
          w |-> 3]
    ELSE IF ~IsContinuation(p[i + 4]) THEN BadRune
    ELSE [r |-> (p[i + 1] % 8) * 262144 + (p[i + 2] % 64) * 4096
                + (p[i + 3] % 64) * 64 + (p[i + 4] % 64),
          w |-> 4]

\* utf8.AppendRune(nil, r): the bytes of r; a surrogate or a value past
\* MaxRune is written as RuneError.
EncodeRune(r) ==
    IF r < 0 THEN <<239, 191, 189>>
    ELSE IF r < RuneSelf THEN <<r>>
    ELSE IF r < 2048 THEN <<192 + (r \div 64), 128 + (r % 64)>>
    ELSE IF r > MaxRune \/ (55296 <= r /\ r <= 57343) THEN <<239, 191, 189>>
    ELSE IF r < 65536
    THEN <<224 + (r \div 4096), 128 + ((r \div 64) % 64), 128 + (r % 64)>>
    ELSE <<240 + (r \div 262144), 128 + ((r \div 4096) % 64),
           128 + ((r \div 64) % 64), 128 + (r % 64)>>

\* next once s.offset = s.rdOffset is set and the rune d = [r, w] was read.
NextRune(s, d) ==
    IF d.r = 0 THEN Panicf(s, "illegal character NUL")
    ELSE IF d.r = RuneError /\ d.w = 1 THEN Panicf(s, "illegal UTF-8 encoding")
    ELSE IF d.r = Bom /\ s.offset > 0 THEN Panicf(s, "illegal byte order mark")
    ELSE [s EXCEPT !.rdOffset = @ + d.w, !.ch = d.r]

\* s.next(): read the next character into s.ch; s.ch < 0 means EOF.
ScannerNext(s) ==
    IF s.err # "nil" THEN s
    ELSE IF s.rdOffset < Len(s.src)
    THEN NextRune([s EXCEPT !.offset = s.rdOffset], DecodeRune(s.src, s.rdOffset))
    ELSE [s EXCEPT !.offset = Len(s.src), !.ch = Control.eof]

\* if s.ch == bom { s.next() }
SkipBom(s) == IF s.err = "nil" /\ s.ch = Bom THEN ScannerNext(s) ELSE s

\* newScanner(file, src)
NewScanner(src) == SkipBom(ScannerNext(Scanner(src)))

\* unicode.Letter (category L) of Unicode 13.0, the tables of Go 1.16 to 1.20:
\* the ranges [lo, hi] of its code points.
LetterRanges ==
    { <<65, 90>>, <<97, 122>>, <<170, 170>>, <<181, 181>>, <<186, 186>>,
      <<192, 214>>, <<216, 246>>, <<248, 705>>, <<710, 721>>, <<736, 740>>,
      <<748, 748>>, <<750, 750>>, <<880, 884>>, <<886, 887>>, <<890, 893>>,
      <<895, 895>>, <<902, 902>>, <<904, 906>>, <<908, 908>>, <<910, 929>>,
      <<931, 1013>>, <<1015, 1153>>, <<1162, 1327>>, <<1329, 1366>>,
      <<1369, 1369>>, <<1376, 1416>>, <<1488, 1514>>, <<1519, 1522>>,
      <<1568, 1610>>, <<1646, 1647>>, <<1649, 1747>>, <<1749, 1749>>,
      <<1765, 1766>>, <<1774, 1775>>, <<1786, 1788>>, <<1791, 1791>>,
      <<1808, 1808>>, <<1810, 1839>>, <<1869, 1957>>, <<1969, 1969>>,
      <<1994, 2026>>, <<2036, 2037>>, <<2042, 2042>>, <<2048, 2069>>,
      <<2074, 2074>>, <<2084, 2084>>, <<2088, 2088>>, <<2112, 2136>>,
      <<2144, 2154>>, <<2208, 2228>>, <<2230, 2247>>, <<2308, 2361>>,
      <<2365, 2365>>, <<2384, 2384>>, <<2392, 2401>>, <<2417, 2432>>,
      <<2437, 2444>>, <<2447, 2448>>, <<2451, 2472>>, <<2474, 2480>>,
      <<2482, 2482>>, <<2486, 2489>>, <<2493, 2493>>, <<2510, 2510>>,
      <<2524, 2525>>, <<2527, 2529>>, <<2544, 2545>>, <<2556, 2556>>,
      <<2565, 2570>>, <<2575, 2576>>, <<2579, 2600>>, <<2602, 2608>>,
      <<2610, 2611>>, <<2613, 2614>>, <<2616, 2617>>, <<2649, 2652>>,
      <<2654, 2654>>, <<2674, 2676>>, <<2693, 2701>>, <<2703, 2705>>,
      <<2707, 2728>>, <<2730, 2736>>, <<2738, 2739>>, <<2741, 2745>>,
      <<2749, 2749>>, <<2768, 2768>>, <<2784, 2785>>, <<2809, 2809>>,
      <<2821, 2828>>, <<2831, 2832>>, <<2835, 2856>>, <<2858, 2864>>,
      <<2866, 2867>>, <<2869, 2873>>, <<2877, 2877>>, <<2908, 2909>>,
      <<2911, 2913>>, <<2929, 2929>>, <<2947, 2947>>, <<2949, 2954>>,
      <<2958, 2960>>, <<2962, 2965>>, <<2969, 2970>>, <<2972, 2972>>,
      <<2974, 2975>>, <<2979, 2980>>, <<2984, 2986>>, <<2990, 3001>>,
      <<3024, 3024>>, <<3077, 3084>>, <<3086, 3088>>, <<3090, 3112>>,
      <<3114, 3129>>, <<3133, 3133>>, <<3160, 3162>>, <<3168, 3169>>,
      <<3200, 3200>>, <<3205, 3212>>, <<3214, 3216>>, <<3218, 3240>>,
      <<3242, 3251>>, <<3253, 3257>>, <<3261, 3261>>, <<3294, 3294>>,
      <<3296, 3297>>, <<3313, 3314>>, <<3332, 3340>>, <<3342, 3344>>,
      <<3346, 3386>>, <<3389, 3389>>, <<3406, 3406>>, <<3412, 3414>>,
      <<3423, 3425>>, <<3450, 3455>>, <<3461, 3478>>, <<3482, 3505>>,
      <<3507, 3515>>, <<3517, 3517>>, <<3520, 3526>>, <<3585, 3632>>,
      <<3634, 3635>>, <<3648, 3654>>, <<3713, 3714>>, <<3716, 3716>>,
      <<3718, 3722>>, <<3724, 3747>>, <<3749, 3749>>, <<3751, 3760>>,
      <<3762, 3763>>, <<3773, 3773>>, <<3776, 3780>>, <<3782, 3782>>,
      <<3804, 3807>>, <<3840, 3840>>, <<3904, 3911>>, <<3913, 3948>>,
      <<3976, 3980>>, <<4096, 4138>>, <<4159, 4159>>, <<4176, 4181>>,
      <<4186, 4189>>, <<4193, 4193>>, <<4197, 4198>>, <<4206, 4208>>,
      <<4213, 4225>>, <<4238, 4238>>, <<4256, 4293>>, <<4295, 4295>>,
      <<4301, 4301>>, <<4304, 4346>>, <<4348, 4680>>, <<4682, 4685>>,
      <<4688, 4694>>, <<4696, 4696>>, <<4698, 4701>>, <<4704, 4744>>,
      <<4746, 4749>>, <<4752, 4784>>, <<4786, 4789>>, <<4792, 4798>>,
      <<4800, 4800>>, <<4802, 4805>>, <<4808, 4822>>, <<4824, 4880>>,
      <<4882, 4885>>, <<4888, 4954>>, <<4992, 5007>>, <<5024, 5109>>,
      <<5112, 5117>>, <<5121, 5740>>, <<5743, 5759>>, <<5761, 5786>>,
      <<5792, 5866>>, <<5873, 5880>>, <<5888, 5900>>, <<5902, 5905>>,
      <<5920, 5937>>, <<5952, 5969>>, <<5984, 5996>>, <<5998, 6000>>,
      <<6016, 6067>>, <<6103, 6103>>, <<6108, 6108>>, <<6176, 6264>>,
      <<6272, 6276>>, <<6279, 6312>>, <<6314, 6314>>, <<6320, 6389>>,
      <<6400, 6430>>, <<6480, 6509>>, <<6512, 6516>>, <<6528, 6571>>,
      <<6576, 6601>>, <<6656, 6678>>, <<6688, 6740>>, <<6823, 6823>>,
      <<6917, 6963>>, <<6981, 6987>>, <<7043, 7072>>, <<7086, 7087>>,
      <<7098, 7141>>, <<7168, 7203>>, <<7245, 7247>>, <<7258, 7293>>,
      <<7296, 7304>>, <<7312, 7354>>, <<7357, 7359>>, <<7401, 7404>>,
      <<7406, 7411>>, <<7413, 7414>>, <<7418, 7418>>, <<7424, 7615>>,
      <<7680, 7957>>, <<7960, 7965>>, <<7968, 8005>>, <<8008, 8013>>,
      <<8016, 8023>>, <<8025, 8025>>, <<8027, 8027>>, <<8029, 8029>>,
      <<8031, 8061>>, <<8064, 8116>>, <<8118, 8124>>, <<8126, 8126>>,
      <<8130, 8132>>, <<8134, 8140>>, <<8144, 8147>>, <<8150, 8155>>,
      <<8160, 8172>>, <<8178, 8180>>, <<8182, 8188>>, <<8305, 8305>>,
      <<8319, 8319>>, <<8336, 8348>>, <<8450, 8450>>, <<8455, 8455>>,
      <<8458, 8467>>, <<8469, 8469>>, <<8473, 8477>>, <<8484, 8484>>,
      <<8486, 8486>>, <<8488, 8488>>, <<8490, 8493>>, <<8495, 8505>>,
      <<8508, 8511>>, <<8517, 8521>>, <<8526, 8526>>, <<8579, 8580>>,
      <<11264, 11310>>, <<11312, 11358>>, <<11360, 11492>>, <<11499, 11502>>,
      <<11506, 11507>>, <<11520, 11557>>, <<11559, 11559>>, <<11565, 11565>>,
      <<11568, 11623>>, <<11631, 11631>>, <<11648, 11670>>, <<11680, 11686>>,
      <<11688, 11694>>, <<11696, 11702>>, <<11704, 11710>>, <<11712, 11718>>,
      <<11720, 11726>>, <<11728, 11734>>, <<11736, 11742>>, <<11823, 11823>>,
      <<12293, 12294>>, <<12337, 12341>>, <<12347, 12348>>, <<12353, 12438>>,
      <<12445, 12447>>, <<12449, 12538>>, <<12540, 12543>>, <<12549, 12591>>,
      <<12593, 12686>>, <<12704, 12735>>, <<12784, 12799>>, <<13312, 19903>>,
      <<19968, 40956>>, <<40960, 42124>>, <<42192, 42237>>, <<42240, 42508>>,
      <<42512, 42527>>, <<42538, 42539>>, <<42560, 42606>>, <<42623, 42653>>,
      <<42656, 42725>>, <<42775, 42783>>, <<42786, 42888>>, <<42891, 42943>>,
      <<42946, 42954>>, <<42997, 43009>>, <<43011, 43013>>, <<43015, 43018>>,
      <<43020, 43042>>, <<43072, 43123>>, <<43138, 43187>>, <<43250, 43255>>,
      <<43259, 43259>>, <<43261, 43262>>, <<43274, 43301>>, <<43312, 43334>>,
      <<43360, 43388>>, <<43396, 43442>>, <<43471, 43471>>, <<43488, 43492>>,
      <<43494, 43503>>, <<43514, 43518>>, <<43520, 43560>>, <<43584, 43586>>,
      <<43588, 43595>>, <<43616, 43638>>, <<43642, 43642>>, <<43646, 43695>>,
      <<43697, 43697>>, <<43701, 43702>>, <<43705, 43709>>, <<43712, 43712>>,
      <<43714, 43714>>, <<43739, 43741>>, <<43744, 43754>>, <<43762, 43764>>,
      <<43777, 43782>>, <<43785, 43790>>, <<43793, 43798>>, <<43808, 43814>>,
      <<43816, 43822>>, <<43824, 43866>>, <<43868, 43881>>, <<43888, 44002>>,
      <<44032, 55203>>, <<55216, 55238>>, <<55243, 55291>>, <<63744, 64109>>,
      <<64112, 64217>>, <<64256, 64262>>, <<64275, 64279>>, <<64285, 64285>>,
      <<64287, 64296>>, <<64298, 64310>>, <<64312, 64316>>, <<64318, 64318>>,
      <<64320, 64321>>, <<64323, 64324>>, <<64326, 64433>>, <<64467, 64829>>,
      <<64848, 64911>>, <<64914, 64967>>, <<65008, 65019>>, <<65136, 65140>>,
      <<65142, 65276>>, <<65313, 65338>>, <<65345, 65370>>, <<65382, 65470>>,
      <<65474, 65479>>, <<65482, 65487>>, <<65490, 65495>>, <<65498, 65500>>,
      <<65536, 65547>>, <<65549, 65574>>, <<65576, 65594>>, <<65596, 65597>>,
      <<65599, 65613>>, <<65616, 65629>>, <<65664, 65786>>, <<66176, 66204>>,
      <<66208, 66256>>, <<66304, 66335>>, <<66349, 66368>>, <<66370, 66377>>,
      <<66384, 66421>>, <<66432, 66461>>, <<66464, 66499>>, <<66504, 66511>>,
      <<66560, 66717>>, <<66736, 66771>>, <<66776, 66811>>, <<66816, 66855>>,
      <<66864, 66915>>, <<67072, 67382>>, <<67392, 67413>>, <<67424, 67431>>,
      <<67584, 67589>>, <<67592, 67592>>, <<67594, 67637>>, <<67639, 67640>>,
      <<67644, 67644>>, <<67647, 67669>>, <<67680, 67702>>, <<67712, 67742>>,
      <<67808, 67826>>, <<67828, 67829>>, <<67840, 67861>>, <<67872, 67897>>,
      <<67968, 68023>>, <<68030, 68031>>, <<68096, 68096>>, <<68112, 68115>>,
      <<68117, 68119>>, <<68121, 68149>>, <<68192, 68220>>, <<68224, 68252>>,
      <<68288, 68295>>, <<68297, 68324>>, <<68352, 68405>>, <<68416, 68437>>,
      <<68448, 68466>>, <<68480, 68497>>, <<68608, 68680>>, <<68736, 68786>>,
      <<68800, 68850>>, <<68864, 68899>>, <<69248, 69289>>, <<69296, 69297>>,
      <<69376, 69404>>, <<69415, 69415>>, <<69424, 69445>>, <<69552, 69572>>,
      <<69600, 69622>>, <<69635, 69687>>, <<69763, 69807>>, <<69840, 69864>>,
      <<69891, 69926>>, <<69956, 69956>>, <<69959, 69959>>, <<69968, 70002>>,
      <<70006, 70006>>, <<70019, 70066>>, <<70081, 70084>>, <<70106, 70106>>,
      <<70108, 70108>>, <<70144, 70161>>, <<70163, 70187>>, <<70272, 70278>>,
      <<70280, 70280>>, <<70282, 70285>>, <<70287, 70301>>, <<70303, 70312>>,
      <<70320, 70366>>, <<70405, 70412>>, <<70415, 70416>>, <<70419, 70440>>,
      <<70442, 70448>>, <<70450, 70451>>, <<70453, 70457>>, <<70461, 70461>>,
      <<70480, 70480>>, <<70493, 70497>>, <<70656, 70708>>, <<70727, 70730>>,
      <<70751, 70753>>, <<70784, 70831>>, <<70852, 70853>>, <<70855, 70855>>,
      <<71040, 71086>>, <<71128, 71131>>, <<71168, 71215>>, <<71236, 71236>>,
      <<71296, 71338>>, <<71352, 71352>>, <<71424, 71450>>, <<71680, 71723>>,
      <<71840, 71903>>, <<71935, 71942>>, <<71945, 71945>>, <<71948, 71955>>,
      <<71957, 71958>>, <<71960, 71983>>, <<71999, 71999>>, <<72001, 72001>>,
      <<72096, 72103>>, <<72106, 72144>>, <<72161, 72161>>, <<72163, 72163>>,
      <<72192, 72192>>, <<72203, 72242>>, <<72250, 72250>>, <<72272, 72272>>,
      <<72284, 72329>>, <<72349, 72349>>, <<72384, 72440>>, <<72704, 72712>>,
      <<72714, 72750>>, <<72768, 72768>>, <<72818, 72847>>, <<72960, 72966>>,
      <<72968, 72969>>, <<72971, 73008>>, <<73030, 73030>>, <<73056, 73061>>,
      <<73063, 73064>>, <<73066, 73097>>, <<73112, 73112>>, <<73440, 73458>>,
      <<73648, 73648>>, <<73728, 74649>>, <<74880, 75075>>, <<77824, 78894>>,
      <<82944, 83526>>, <<92160, 92728>>, <<92736, 92766>>, <<92880, 92909>>,
      <<92928, 92975>>, <<92992, 92995>>, <<93027, 93047>>, <<93053, 93071>>,
      <<93760, 93823>>, <<93952, 94026>>, <<94032, 94032>>, <<94099, 94111>>,
      <<94176, 94177>>, <<94179, 94179>>, <<94208, 100343>>,
      <<100352, 101589>>, <<101632, 101640>>, <<110592, 110878>>,
      <<110928, 110930>>, <<110948, 110951>>, <<110960, 111355>>,
      <<113664, 113770>>, <<113776, 113788>>, <<113792, 113800>>,
      <<113808, 113817>>, <<119808, 119892>>, <<119894, 119964>>,
      <<119966, 119967>>, <<119970, 119970>>, <<119973, 119974>>,
      <<119977, 119980>>, <<119982, 119993>>, <<119995, 119995>>,
      <<119997, 120003>>, <<120005, 120069>>, <<120071, 120074>>,
      <<120077, 120084>>, <<120086, 120092>>, <<120094, 120121>>,
      <<120123, 120126>>, <<120128, 120132>>, <<120134, 120134>>,
      <<120138, 120144>>, <<120146, 120485>>, <<120488, 120512>>,
      <<120514, 120538>>, <<120540, 120570>>, <<120572, 120596>>,
      <<120598, 120628>>, <<120630, 120654>>, <<120656, 120686>>,
      <<120688, 120712>>, <<120714, 120744>>, <<120746, 120770>>,
      <<120772, 120779>>, <<123136, 123180>>, <<123191, 123197>>,
      <<123214, 123214>>, <<123584, 123627>>, <<124928, 125124>>,
      <<125184, 125251>>, <<125259, 125259>>, <<126464, 126467>>,
      <<126469, 126495>>, <<126497, 126498>>, <<126500, 126500>>,
      <<126503, 126503>>, <<126505, 126514>>, <<126516, 126519>>,
      <<126521, 126521>>, <<126523, 126523>>, <<126530, 126530>>,
      <<126535, 126535>>, <<126537, 126537>>, <<126539, 126539>>,
      <<126541, 126543>>, <<126545, 126546>>, <<126548, 126548>>,
      <<126551, 126551>>, <<126553, 126553>>, <<126555, 126555>>,
      <<126557, 126557>>, <<126559, 126559>>, <<126561, 126562>>,
      <<126564, 126564>>, <<126567, 126570>>, <<126572, 126578>>,
      <<126580, 126583>>, <<126585, 126588>>, <<126590, 126590>>,
      <<126592, 126601>>, <<126603, 126619>>, <<126625, 126627>>,
      <<126629, 126633>>, <<126635, 126651>>, <<131072, 173789>>,
      <<173824, 177972>>, <<177984, 178205>>, <<178208, 183969>>,
      <<183984, 191456>>, <<194560, 195101>>, <<196608, 201546>> }

\* The letters Unicode 14.0 and 15.0 add; Go 1.21 brought the tables to 15.0.
LetterRangesAdded ==
    { <<2160, 2183>>, <<2185, 2190>>, <<2229, 2229>>, <<2248, 2249>>,
      <<3165, 3165>>, <<3293, 3293>>, <<5901, 5901>>, <<5919, 5919>>,
      <<6988, 6988>>, <<11311, 11311>>, <<11359, 11359>>, <<40957, 40959>>,
      <<42944, 42945>>, <<42960, 42961>>, <<42963, 42963>>, <<42965, 42969>>,
      <<42994, 42996>>, <<66928, 66938>>, <<66940, 66954>>, <<66956, 66962>>,
      <<66964, 66965>>, <<66967, 66977>>, <<66979, 66993>>, <<66995, 67001>>,
      <<67003, 67004>>, <<67456, 67461>>, <<67463, 67504>>, <<67506, 67514>>,
      <<69488, 69505>>, <<69745, 69746>>, <<69749, 69749>>, <<70207, 70208>>,
      <<71488, 71494>>, <<72368, 72383>>, <<73474, 73474>>, <<73476, 73488>>,
      <<73490, 73523>>, <<77712, 77808>>, <<78895, 78895>>, <<78913, 78918>>,
      <<92784, 92862>>, <<110576, 110579>>, <<110581, 110587>>,
      <<110589, 110590>>, <<110879, 110882>>, <<110898, 110898>>,
      <<110933, 110933>>, <<122624, 122654>>, <<122661, 122666>>,
      <<122928, 122989>>, <<123536, 123565>>, <<124112, 124139>>,
      <<124896, 124902>>, <<124904, 124907>>, <<124909, 124910>>,
      <<124912, 124926>>, <<173790, 173791>>, <<177973, 177977>>,
      <<201552, 205743>> }

\* unicode.Digit (category Nd) of Unicode 13.0.
DigitRanges ==
    { <<48, 57>>, <<1632, 1641>>, <<1776, 1785>>, <<1984, 1993>>,
      <<2406, 2415>>, <<2534, 2543>>, <<2662, 2671>>, <<2790, 2799>>,
      <<2918, 2927>>, <<3046, 3055>>, <<3174, 3183>>, <<3302, 3311>>,
      <<3430, 3439>>, <<3558, 3567>>, <<3664, 3673>>, <<3792, 3801>>,
      <<3872, 3881>>, <<4160, 4169>>, <<4240, 4249>>, <<6112, 6121>>,
      <<6160, 6169>>, <<6470, 6479>>, <<6608, 6617>>, <<6784, 6793>>,
      <<6800, 6809>>, <<6992, 7001>>, <<7088, 7097>>, <<7232, 7241>>,
      <<7248, 7257>>, <<42528, 42537>>, <<43216, 43225>>, <<43264, 43273>>,
      <<43472, 43481>>, <<43504, 43513>>, <<43600, 43609>>, <<44016, 44025>>,
      <<65296, 65305>>, <<66720, 66729>>, <<68912, 68921>>, <<69734, 69743>>,
      <<69872, 69881>>, <<69942, 69951>>, <<70096, 70105>>, <<70384, 70393>>,
      <<70736, 70745>>, <<70864, 70873>>, <<71248, 71257>>, <<71360, 71369>>,
      <<71472, 71481>>, <<71904, 71913>>, <<72016, 72025>>, <<72784, 72793>>,
      <<73040, 73049>>, <<73120, 73129>>, <<92768, 92777>>, <<93008, 93017>>,
      <<120782, 120831>>, <<123200, 123209>>, <<123632, 123641>>,
      <<125264, 125273>>, <<130032, 130041>> }

\* The digits Unicode 14.0 and 15.0 add.
DigitRangesAdded ==
    { <<73552, 73561>>, <<92864, 92873>>, <<124144, 124153>> }

\* ch lies in one of the ranges.
InRanges(ch, ranges) == \E r \in ranges : r[1] <= ch /\ ch <= r[2]

\* unicode.IsLetter(ch), by the tables of the release
UnicodeIsLetter(ch) ==
    InRanges(ch, LetterRanges) \/ (release >= 21 /\ InRanges(ch, LetterRangesAdded))

\* unicode.IsDigit(ch), by the tables of the release
UnicodeIsDigit(ch) ==
    InRanges(ch, DigitRanges) \/ (release >= 21 /\ InRanges(ch, DigitRangesAdded))

IsLetter(ch) ==
    \/ Ch("a") <= ch /\ ch <= Ch("z")
    \/ Ch("A") <= ch /\ ch <= Ch("Z")
    \/ UnicodeIsLetter(ch)

IsDecimal(ch) == Ch("0") <= ch /\ ch <= Ch("9")

IsDigit(ch) == IsDecimal(ch) \/ UnicodeIsDigit(ch)

\* hexDigit(ch), as [h, ok].
HexDigit(ch) ==
    IF IsDecimal(ch) THEN [h |-> ch - Ch("0"), ok |-> TRUE]
    ELSE IF Ch("A") <= ch /\ ch <= Ch("F")
    THEN [h |-> ch - Ch("A") + 10, ok |-> TRUE]
    ELSE IF Ch("a") <= ch /\ ch <= Ch("f")
    THEN [h |-> ch - Ch("a") + 10, ok |-> TRUE]
    ELSE [h |-> 0, ok |-> FALSE]

RECURSIVE SkipWhitespace(_)
SkipWhitespace(s) ==
    IF s.err = "nil" /\ s.ch \in {Ch(" "), Control.ht, Control.lf, Control.cr}
    THEN SkipWhitespace(ScannerNext(s))
    ELSE s

RECURSIVE SkipComment(_)
SkipComment(s) ==
    IF s.err = "nil" /\ s.ch # Control.lf /\ s.ch # Control.eof
    THEN SkipComment(ScannerNext(s))
    ELSE s

RECURSIVE ScanIdentifier(_)
\* The loop of scanIdentifier; the literal is src[begin:s.offset].
ScanIdentifier(s) ==
    IF s.err = "nil" /\ (IsLetter(s.ch) \/ IsDigit(s.ch) \/ s.ch = Ch("_"))
    THEN ScanIdentifier(ScannerNext(s))
    ELSE s

RECURSIVE ScanDigits(_)
\* for '0' <= s.ch && s.ch <= '9' { s.next() }
ScanDigits(s) ==
    IF s.err = "nil" /\ IsDecimal(s.ch) THEN ScanDigits(ScannerNext(s)) ELSE s

\* scanNumber after the exponent's sign: the exponent needs a digit.
NumberExponentDigits(s) ==
    IF s.err # "nil" THEN s
    ELSE IF ~IsDecimal(s.ch) THEN Panicf(s, "invalid number")
    ELSE ScanDigits(s)

\* scanNumber after 'e' or 'E'.
NumberExponentSign(s) ==
    IF s.err # "nil" THEN s
    ELSE IF s.ch \in {Ch("+"), Ch("-")} THEN NumberExponentDigits(ScannerNext(s))
    ELSE NumberExponentDigits(s)

\* scanNumber from `if s.ch == 'e' || s.ch == 'E'`.
NumberExponent(haveBase, s) ==
    IF s.err # "nil" THEN s
    ELSE IF s.ch \in {Ch("e"), Ch("E")}
    THEN IF ~haveBase THEN Panicf(s, "invalid number")
         ELSE NumberExponentSign(ScannerNext(s))
    ELSE s

\* scanNumber after the '.' was consumed: haveFraction is decided by s.ch.
NumberFraction(haveInteger, s) ==
    IF s.err # "nil" THEN s
    ELSE IF ~haveInteger /\ ~IsDecimal(s.ch) THEN Panicf(s, "invalid number")
    ELSE NumberExponent(TRUE, ScanDigits(s))

\* scanNumber after the integer digits.
NumberBase(haveInteger, s) ==
    IF s.err # "nil" THEN s
    ELSE IF s.ch = Ch(".") THEN NumberFraction(haveInteger, ScannerNext(s))
    ELSE NumberExponent(haveInteger, s)

\* s.scanNumber(); the literal is src[begin:s.offset].
ScanNumber(s) == NumberBase(IsDecimal(s.ch), ScanDigits(s))

RECURSIVE EscapeDigits(_, _, _, _, _, _)
\* The loop of scanEscape over at most n digits, as [s, r].
EscapeDigits(n, base, max, exact, code, s) ==
    IF s.err # "nil" \/ n = 0 THEN [s |-> s, r |-> code]
    ELSE IF \/ ~HexDigit(s.ch).ok
            \/ HexDigit(s.ch).h >= base
            \/ code * base + HexDigit(s.ch).h > max
    THEN IF exact THEN [s |-> Panicf(s, "invalid escape"), r |-> code]
         ELSE [s |-> s, r |-> code]
    ELSE EscapeDigits(n - 1, base, max, exact,
                      code * base + HexDigit(s.ch).h, ScannerNext(s))

\* The runes of the one-letter escapes.
Escapes ==
    [c \in {Ch("n"), Ch("r"), Ch("v"), Ch("t"), Ch("b"), Ch("f")} |->
        IF c = Ch("n") THEN Control.lf
        ELSE IF c = Ch("r") THEN Control.cr
        ELSE IF c = Ch("v") THEN Control.vt
        ELSE IF c = Ch("t") THEN Control.ht
        ELSE IF c = Ch("b") THEN Control.bs
        ELSE Control.ff]

\* scanEscape after the backslash was consumed.
EscapeKind(s) ==
    IF s.err # "nil" THEN [s |-> s, r |-> 0]
    ELSE IF s.ch \in {Ch("'"), Ch("\""), Ch("\\")}
    THEN [s |-> ScannerNext(s), r |-> s.ch]
    ELSE IF s.ch \in DOMAIN Escapes
    THEN [s |-> ScannerNext(s), r |-> Escapes[s.ch]]
    ELSE IF Ch("0") <= s.ch /\ s.ch <= Ch("7")
    THEN EscapeDigits(3, 8, 255, FALSE, 0, s)
    ELSE IF s.ch = Ch("u")
    THEN EscapeDigits(4, 16, 65535, TRUE, 0, ScannerNext(s))
    ELSE IF s.ch = Ch("x")
    THEN EscapeDigits(2, 16, 255, TRUE, 0, ScannerNext(s))
    ELSE [s |-> Panicf(s, "invalid escape"), r |-> 0]

\* s.scanEscape(), as [s, r].
ScanEscape(s) == EscapeKind(ScannerNext(s))

RECURSIVE StringLoop(_, _, _), StringEscape(_, _, _)
\* The loop of scanString with quote q, as [s, lit]: buf holds bytes.
StringLoop(q, buf, s) ==
    IF s.err # "nil" THEN [s |-> s, lit |-> buf]
    ELSE IF s.ch = Control.lf \/ s.ch < 0
    THEN [s |-> Panicf(s, "string literal not terminated"), lit |-> buf]
    ELSE IF s.ch = q THEN [s |-> ScannerNext(s), lit |-> buf]
    ELSE IF s.ch = Ch("\\") THEN StringEscape(q, buf, ScanEscape(s))
    ELSE StringLoop(q, buf \o EncodeRune(s.ch), ScannerNext(s))

\* r := s.scanEscape(); buf.WriteRune(r); continue
StringEscape(q, buf, e) == StringLoop(q, buf \o EncodeRune(e.r), e.s)

\* s.scanString(), as [s, lit].
ScanString(s) == StringLoop(s.ch, <<>>, ScannerNext(s))

\* The result of scan: the scanner after it (s.err holds a panic), the
\* offset of pos, the token and its literal.
Token(s, pos, tok, lit) == [s |-> s, pos |-> pos, tok |-> tok, lit |-> lit]

\* string(s.src[begin:s.offset])
SrcText(s, begin) == SubSeq(s.src, begin + 1, s.offset)

Keyword(lit) ==
    IF lit = Bytes(<<"n", "u", "l", "l">>) THEN "null"
    ELSE IF lit = Bytes(<<"t", "r", "u", "e">>) THEN "true_"
    ELSE IF lit = Bytes(<<"f", "a", "l", "s", "e">>) THEN "false_"
    ELSE "identifier"

\* The tokens of one character.
Punctuation ==
    [c \in {Ch(","), Ch("?"), Ch(":"), Ch("|"), Ch("*"), Ch("/"), Ch("%"),
            Ch("-"), Ch("+"), Ch("["), Ch("]"), Ch("{"), Ch("}"), Ch("("),
            Ch(")"), Control.eof} |->
        IF c = Ch(",") THEN "comma"
        ELSE IF c = Ch("?") THEN "questionMark"
        ELSE IF c = Ch(":") THEN "colon"
        ELSE IF c = Ch("|") THEN "pipe"
        ELSE IF c = Ch("*") THEN "star"
        ELSE IF c = Ch("/") THEN "slash"
        ELSE IF c = Ch("%") THEN "percent"
        ELSE IF c = Ch("-") THEN "minus"
        ELSE IF c = Ch("+") THEN "plus"
        ELSE IF c = Ch("[") THEN "leftBracket"
        ELSE IF c = Ch("]") THEN "rightBracket"
        ELSE IF c = Ch("{") THEN "leftBrace"
        ELSE IF c = Ch("}") THEN "rightBrace"
        ELSE IF c = Ch("(") THEN "leftParen"
        ELSE IF c = Ch(")") THEN "rightParen"
        ELSE "eof"]

\* case '.' of scan when a digit follows: lit = "." + s.scanNumber().
DotNumber(pos, begin, s) ==
    Token(s, pos, "number", <<Ch(".")>> \o SrcText(s, begin))

\* The default case of scan, after `s.next() // always make progress`.
ScanDefault(pos, ch, s) ==
    IF s.err # "nil" THEN Token(s, pos, "illegal", <<>>)
    ELSE IF ch = Ch(".")
    THEN IF IsDecimal(s.ch) THEN DotNumber(pos, s.offset, ScanNumber(s))
         ELSE IF s.ch = Ch(".") THEN Token(ScannerNext(s), pos, "dotDot", <<>>)
         ELSE Token(s, pos, "dot", <<>>)
    ELSE IF ch \in DOMAIN Punctuation THEN Token(s, pos, Punctuation[ch], <<>>)
    ELSE Token(Panicf(s, "illegal character"), pos, "illegal", <<>>)

ScanIdentifierToken(pos, s) ==
    Token(s, pos, Keyword(SrcText(s, pos)), SrcText(s, pos))

ScanNumberToken(pos, s) == Token(s, pos, "number", SrcText(s, pos))

ScanStringToken(pos, r) == Token(r.s, pos, "str", r.lit)

RECURSIVE Scan(_), ScanSwitch(_)
\* s.scan(): the next token.
Scan(s) == ScanSwitch(SkipWhitespace(s))

\* The switch of scan, after skipWhitespace.
ScanSwitch(s) ==
    IF s.err # "nil" THEN Token(s, s.offset, "illegal", <<>>)
    ELSE IF s.ch = Ch("#") THEN Scan(SkipComment(s))
    ELSE IF IsLetter(s.ch) \/ s.ch = Ch("_")
    THEN ScanIdentifierToken(s.offset, ScanIdentifier(s))
    ELSE IF IsDecimal(s.ch) THEN ScanNumberToken(s.offset, ScanNumber(s))
    ELSE IF s.ch \in {Ch("'"), Ch("\"")}
    THEN ScanStringToken(s.offset, ScanString(s))
    ELSE ScanDefault(s.offset, s.ch, ScannerNext(s))

\* recoverError: the panic becomes the error; pos, tok and lit stay zero.
Recovered(t) ==
    IF t.s.err = "nil"
    THEN [s |-> t.s, pos |-> t.pos, tok |-> t.tok, lit |-> t.lit, err |-> "nil"]
    ELSE [s |-> [t.s EXCEPT !.err = "nil"], pos |-> 0, tok |-> "illegal",
          lit |-> <<>>, err |-> t.s.err]

\* s.scanOrError(), as [s, pos, tok, lit, err].
ScanOrError(s) == Recovered(Scan(s))

(***************************************************************************)
(* Specification SpecScan: a scanner is made for one source and scan is    *)
(* called on it MaxScans times, as the scanner tests and the parser do.    *)
(* history records every call: the scanner before, the result, the         *)
(* scanner after.                                                          *)
(***************************************************************************)
\* The bytes sources are made of.
ScanAlphabet ==
    {Ch("1"), Ch("."), Ch("e"), Ch("-"), Ch("+"), Ch(" "), Ch("#"), Ch("a"),
     Ch("\""), Ch("\\"), Ch("["), Control.lf, Control.nul, Control.bad,
     195, 169}  \* the two bytes of U+00E9

\* The texts of TestNumber (scanner_test.go).
TestNumber ==
    { Bytes(<<"0">>),
      Bytes(<<"1", "2", "3", "4", "5", "6", "7", "8", "9", "0">>),
      Bytes(<<"-", "1", "2">>),
      Bytes(<<"+", "1", "2">>),
      Bytes(<<".", "1", "2">>),
      Bytes(<<"-", ".", "1", "2">>),
      Bytes(<<"1", "2", ".">>),
      Bytes(<<"-", "1", "2", ".">>),
      Bytes(<<"1", "2", ".", "3", "4">>),
      Bytes(<<"-", "1", "2", ".", "3", "4">>),
      Bytes(<<"1", "e", "2", "3">>),
      Bytes(<<"1", "E", "2", "3">>),
      Bytes(<<"-", "1", "e", "2", "3">>),
      Bytes(<<"-", "1", ".", "2", "e", "3">>),
      Bytes(<<"-", ".", "1", "2", "e", "3">>),
      Bytes(<<"1", "e", "+", "1">>),
      Bytes(<<"1", "e", "-", "1">>) }

\* Further sources: numbers followed by more text, strings, comments.
ScanTexts ==
    { Bytes(<<".", "5", ".", "3">>),
      Bytes(<<".", "5", ".">>),
      Bytes(<<"1", ".", "5", ".", "3">>),
      Bytes(<<".", "5", "e", "1", ".">>),
      Bytes(<<".", ".", "1">>),
      Bytes(<<"\"", "a", "\\", "n", "\"", " ", "x">>),
      Bytes(<<"'", "\\", "1", "4", "1", "\\", "x", "5", "A", "'">>),
      Bytes(<<"\"", "\\", "u", "1", "2", "\"">>),
      Bytes(<<"n", "u", "l", "l", " ", "t", "r", "u", "e", " ", "_", "a", "1">>),
      Bytes(<<"#", " ", "c">>) \o <<Control.lf>> \o Bytes(<<".", "a", "?">>),
      Bytes(<<"{", "a", ":", "1", "|", "2", "}">>),
      Bytes(<<"a", "$">>) }

\* Sources with runes of more than one byte: the texts of TestIdentifier
\* that have some, byte order marks, and strings with escapes above 0x7F.
Snowman == <<226, 152, 131>>                       \* U+2603
BomBytes == <<239, 187, 191>>                      \* U+FEFF
Fancy ==                                           \* U+1D523 1D51E 1D52B 1D520 1D536
    <<240, 157, 148, 163, 240, 157, 148, 158, 240, 157, 148, 171,
      240, 157, 148, 160, 240, 157, 148, 182>>
UnicodeTexts ==
    { Snowman,
      Fancy \o Bytes(<<"1", "2", "3">>),
      Bytes(<<"1", "2", "3">>) \o Fancy,
      Bytes(<<".", "\"">>) \o Snowman \o Bytes(<<"\"">>),
      BomBytes \o Bytes(<<"1">>),
      Bytes(<<"a">>) \o BomBytes,
      Bytes(<<"a">>) \o <<217, 163>> \o Bytes(<<" ", "1">>),  \* U+0663, a digit
      Bytes(<<"\"", "\\", "3", "7", "7", "\"">>),
      Bytes(<<"\"", "\\", "u", "1", "2", "3", "4", "5", "\"">>),
      Bytes(<<"\"", "\\", "u", "D", "8", "0", "0", "\"">>),
      <<226, 152>>,
      <<240, 150, 169, 176>>,                        \* U+16A70, a letter of 14.0
      Bytes(<<"a">>) \o <<240, 145, 189, 144>>,      \* a U+11F50, a digit of 15.0
      <<240, 177, 141, 144>>,                        \* U+31350, a letter of 15.0
      <<240, 145, 136, 191>>,                        \* U+1123F, a letter of 15.0
      <<240, 147, 144, 175>> \o Bytes(<<" ", "1">>) } \* U+1342F, a letter of 15.0

\* Every source of at most n bytes of the alphabet.
SourcesUpTo(n) == UNION {[1..k -> ScanAlphabet] : k \in 0..n}

ScanSources == SourcesUpTo(MaxSrc) \cup TestNumber \cup ScanTexts \cup UnicodeTexts

InitScan ==
    /\ prog = Dot
    /\ heap = <<>>
    /\ satArch = FALSE
    /\ release \in Releases
    /\ history = <<>>
    /\ pc = "idle"
    /\ ndec = 0
    /\ vin = NoValue
    /\ vouts = NilSlice
    /\ vi = 0
    /\ ret = ""
    /\ trace = <<>>
    /\ \E src \in ScanSources : scanner = Scanner(src)

\* s := newScanner(file, src): a panic of its s.next() is not recovered.
NewScannerCall ==
    /\ pc = "idle"
    /\ scanner' = NewScanner(scanner.src)
    /\ pc' = IF NewScanner(scanner.src).err = "nil" THEN "scan" ELSE "panic"
    /\ UNCHANGED <<heap, prog, satArch, release, history, ndec, vin, vouts, vi, ret, trace>>

\* The record of one call of scanOrError on s that returned r.
Scanned(s, r) ==
    [s |-> s, pos |-> r.pos, tok |-> r.tok, lit |-> r.lit, err |-> r.err,
     t |-> r.s]

\* _, tok, lit, err := s.scanOrError()
ScanCall ==
    /\ pc = "scan"
    /\ Len(history) < MaxScans
    /\ history' = Append(history, Scanned(scanner, ScanOrError(scanner)))
    /\ scanner' = ScanOrError(scanner).s
    /\ UNCHANGED <<heap, prog, satArch, release, pc, ndec, vin, vouts, vi, ret, trace>>

NextScan == NewScannerCall \/ ScanCall

SpecScan == InitScan /\ [][NextScan]_vars

(***************************************************************************)
(* The parser of filter/jq (parser.go) and Compile (jq.go).  A parser is a *)
(* record of its scanner s and its fields pos, tok, lit and initScanErr;   *)
(* the field err holds the message of a panic in flight (a scanError of    *)
(* p.scanner.scan or a parseError of p.panicf), "nil" when there is none.  *)
(* Every parse function returns [f, p]: the filter tree and the parser     *)
(* after it; f means nothing when p.err is set.                            *)
(***************************************************************************)
RECURSIVE ReadMantissa(_, _)
\* strconv readFloat: the loop over digits and one '.'; m is the state
\* [i, sawdot, sawdigits, mant, frac] at position i of t; mant is the
\* natural number of all the digits read.
ReadMantissa(t, m) ==
    IF m.i > Len(t) THEN m
    ELSE IF t[m.i] = Ch(".")
    THEN IF m.sawdot THEN m
         ELSE ReadMantissa(t, [m EXCEPT !.i = @ + 1, !.sawdot = TRUE])
    ELSE IF IsDecimal(t[m.i])
    THEN ReadMantissa(t, [m EXCEPT !.i = @ + 1,
                                   !.sawdigits = TRUE,
                                   !.mant = NatAdd(NatScale(@, 10),
                                                   NatOf(t[m.i] - Ch("0"))),
                                   !.frac = IF m.sawdot THEN @ + 1 ELSE @])
    ELSE m

RECURSIVE ReadExponent(_, _, _)
\* strconv readFloat: the digits of the exponent from position i, as [i, e].
ReadExponent(t, i, e) ==
    IF i <= Len(t) /\ IsDecimal(t[i])
    THEN ReadExponent(t, i + 1,
                      IF e < 10000 THEN e * 10 + (t[i] - Ch("0")) ELSE e)
    ELSE [i |-> i, e |-> e]

\* The result of ParseFloat for the float64 f nearest to the text: an
\* infinity is out of range.
Ranged(f) == [f |-> f, err |-> IF IsInf(f) THEN "ErrRange" ELSE "nil"]

\* The float64 nearest to the decimal number of sign s whose digits make
\* the natural number mant # 0, times 10^x.  A mantissa of n bits is at
\* least 2^(n-1) and below 2^n: the first two cases are the values beyond
\* 10^310 and below 10^-330.
DecimalOf(s, mant, x) ==
    IF ((NatBits(mant) - 1) * 3) \div 10 + x > 310 THEN Inf(s)
    ELSE IF (NatBits(mant) * 4) \div 10 + 1 + x < -330 THEN Zero(s)
    ELSE IF x >= 0 THEN Round(s, NatMul(mant, NatPow10(x)), 0, FALSE)
    ELSE Ratio(s, mant, NatPow10(-x), 0)

\* The float64 of mantissa mant with frac digits after the point and
\* decimal exponent e, correctly rounded; a value that rounds to an
\* infinity gives ErrRange, one that rounds to zero gives no error.
Decimal(neg, mant, frac, e) ==
    IF Len(mant) = 0 THEN [f |-> Zero(IF neg THEN -1 ELSE 1), err |-> "nil"]
    ELSE Ranged(DecimalOf(IF neg THEN -1 ELSE 1, mant, e - frac))

\* atof once the exponent x = [i, e] was read from position j with sign esign:
\* an exponent needs a digit and the whole text must be consumed.
FloatExponent(t, neg, m, j, esign, x) ==
    IF x.i = j \/ x.i # Len(t) + 1 THEN [f |-> Rat(0, 1), err |-> "ErrSyntax"]
    ELSE Decimal(neg, m.mant, m.frac, esign * x.e)

\* atof once the mantissa was read into m.
FloatMantissa(t, neg, m) ==
    IF ~m.sawdigits THEN [f |-> Rat(0, 1), err |-> "ErrSyntax"]
    ELSE IF m.i <= Len(t) /\ t[m.i] \in {Ch("e"), Ch("E")}
    THEN IF m.i + 1 <= Len(t) /\ t[m.i + 1] = Ch("-")
         THEN FloatExponent(t, neg, m, m.i + 2, -1, ReadExponent(t, m.i + 2, 0))
         ELSE IF m.i + 1 <= Len(t) /\ t[m.i + 1] = Ch("+")
         THEN FloatExponent(t, neg, m, m.i + 2, 1, ReadExponent(t, m.i + 2, 0))
         ELSE FloatExponent(t, neg, m, m.i + 1, 1, ReadExponent(t, m.i + 1, 0))
    ELSE IF m.i # Len(t) + 1 THEN [f |-> Rat(0, 1), err |-> "ErrSyntax"]
    ELSE Decimal(neg, m.mant, m.frac, 0)

\* strconv.ParseFloat(lit, 64) on a decimal text, as [f, err].
ParseFloat(t) ==
    FloatMantissa(t, Len(t) > 0 /\ t[1] = Ch("-"),
        ReadMantissa(t, [i |-> IF Len(t) > 0 /\ t[1] \in {Ch("+"), Ch("-")}
                               THEN 2 ELSE 1,
                         sawdot |-> FALSE, sawdigits |-> FALSE,
                         mant |-> <<>>, frac |-> 0]))

\* A nil sift.Filter.
NoFilter == [op |-> "nil"]

\* What a parse function returns.
Parsed(f, p) == [f |-> f, p |-> p]

\* p.panicf(pos, message)
ParserPanicf(p, message) == Parsed(NoFilter, [p EXCEPT !.err = message])

\* p.scan() once p.scanner.scan() has returned t.
ParserScanned(p, t) ==
    IF t.s.err # "nil" THEN [p EXCEPT !.s = t.s, !.err = t.s.err]
    ELSE [p EXCEPT !.s = t.s, !.pos = t.pos, !.tok = t.tok, !.lit = t.lit]

\* p.scan(): the caller keeps the previous p.lit when it needs it.
ParserScan(p) == IF p.err # "nil" THEN p ELSE ParserScanned(p, Scan(p.s))

\* newParser(s) once s.scanOrError() has returned r.
NewParserScanned(r) ==
    [s |-> r.s, pos |-> r.pos, tok |-> r.tok, lit |-> r.lit,
     initScanErr |-> r.err, err |-> "nil"]

NewParser(s) == NewParserScanned(ScanOrError(s))

\* One operator of a level: its token and the combinator it builds.
Op(tok, combine) == [tok |-> tok, combine |-> combine]

BinaryLevels ==
    << <<Op("pipe", "Compose")>>,
       <<Op("comma", "Concat")>>,
       <<Op("plus", "add"), Op("minus", "sub")>>,
       <<Op("star", "mul"), Op("slash", "div"), Op("percent", "mod")>> >>

\* append(binaryLevels[:1:1], binaryLevels[2:]...)
BinaryLevelsWithoutComma ==
    SubSeq(BinaryLevels, 1, 1) \o SubSeq(BinaryLevels, 3, Len(BinaryLevels))

\* op.combine(x, y)
Combine(combine, x, y) ==
    IF combine = "Compose" THEN Pipe(x, y)
    ELSE IF combine = "Concat" THEN Comma(x, y)
    ELSE Bin(combine, x, y)

\* The operators of a level that p.tok matches.
Matching(level, tok) == SelectSeq(level, LAMBDA op : op.tok = tok)

RECURSIVE ParseBinary(_, _), Terms(_, _), TermsCombine(_, _, _, _)
RECURSIVE ParsePrimary(_), ParseNumber(_, _), Negated(_)
RECURSIVE ParseGroup(_), GroupEnd(_)
RECURSIVE ParsePostfixOrDot(_, _, _), PostfixDot(_, _, _), PostfixAttr(_, _, _)
RECURSIVE PostfixIndexed(_)
RECURSIVE ParseIndex(_, _), IndexStart(_, _), IndexIterate(_, _)
RECURSIVE IndexFirst(_, _), IndexAfterColon(_, _, _), IndexEnd(_, _, _)
RECURSIVE IndexClose(_, _, _, _, _)
RECURSIVE ParseArrayConstruct(_), ArrayElems(_, _), ArrayElem(_, _)
RECURSIVE ParseObjectConstruct(_), ObjectAttrs(_, _), ObjectKey(_, _)
RECURSIVE ObjectKeyGroup(_, _), ObjectColon(_, _, _), ObjectValue(_, _, _)

\* p.parseExpr()
ParseExpr(p) == ParseBinary(BinaryLevels, p)

\* p.parsePrimaryWithPostfix()
PostfixOf(r) == ParsePostfixOrDot(r.f, FALSE, r.p)
ParsePrimaryWithPostfix(p) == PostfixOf(ParsePrimary(p))

\* p.parseBinary(levels)
ParseBinary(levels, p) ==
    IF Len(levels) = 0 THEN ParsePrimaryWithPostfix(p)
    ELSE Terms(levels, ParseBinary(Tail(levels), p))

\* The Terms loop of parseBinary with x = r.f.
Terms(levels, r) ==
    IF r.p.err # "nil" THEN r
    ELSE IF Len(Matching(levels[1], r.p.tok)) > 0
    THEN TermsCombine(levels, Matching(levels[1], r.p.tok)[1].combine, r.f,
                      ParseBinary(Tail(levels), ParserScan(r.p)))
    ELSE r

\* x = op.combine(x, y); continue Terms
TermsCombine(levels, combine, x, ry) ==
    IF ry.p.err # "nil" THEN ry
    ELSE Terms(levels, Parsed(Combine(combine, x, ry.f), ry.p))

\* p.parsePrimary()
ParsePrimary(p) ==
    IF p.err # "nil" THEN Parsed(NoFilter, p)
    ELSE IF p.tok = "null" THEN Parsed(Lit(NullValue), ParserScan(p))
    ELSE IF p.tok = "true_" THEN Parsed(Lit(BoolV(TRUE)), ParserScan(p))
    ELSE IF p.tok = "false_" THEN Parsed(Lit(BoolV(FALSE)), ParserScan(p))
    ELSE IF p.tok = "number" THEN ParseNumber(p, ParseFloat(p.lit))
    ELSE IF p.tok = "str" THEN Parsed(Lit(StrV(p.lit)), ParserScan(p))
    ELSE IF p.tok = "dotDot" THEN Parsed(DotDot, ParserScan(p))
    ELSE IF p.tok = "minus" THEN Negated(ParsePrimary(ParserScan(p)))
    ELSE IF p.tok = "leftBracket" THEN ParseArrayConstruct(p)
    ELSE IF p.tok = "leftBrace" THEN ParseObjectConstruct(p)
    ELSE IF p.tok = "dot" THEN ParsePostfixOrDot(Dot, TRUE, p)
    ELSE IF p.tok = "leftParen" THEN ParseGroup(p)
    ELSE ParserPanicf(p, "expected expression")

\* The number case of parsePrimary once ParseFloat has returned n.
ParseNumber(p, n) ==
    IF n.err = "ErrRange"
    THEN Parsed(Lit(NumV(IF p.lit[1] = Ch("-")
                         THEN FNeg(MaxFloat64) ELSE MaxFloat64)),
                ParserScan(p))
    ELSE IF n.err # "nil" THEN ParserPanicf(p, "invalid number: invalid syntax")
    ELSE Parsed(Lit(NumV(n.f)), ParserScan(p))

\* return sift.Compose(f, sift.MapError(neg))
Negated(r) == IF r.p.err # "nil" THEN r ELSE Parsed(Minus(r.f), r.p)

\* p.parseGroup()
ParseGroup(p) == GroupEnd(ParseExpr(ParserScan(p)))

GroupEnd(r) ==
    IF r.p.err # "nil" THEN r
    ELSE IF r.p.tok # "rightParen" THEN ParserPanicf(r.p, "expected )")
    ELSE Parsed(r.f, ParserScan(r.p))

\* p.parsePostfixOrDot(f, dotOk): one turn of its loop.
ParsePostfixOrDot(f, dotOk, p) ==
    IF p.err # "nil" THEN Parsed(f, p)
    ELSE IF p.tok = "dot" THEN PostfixDot(f, dotOk, ParserScan(p))
    ELSE IF p.tok = "leftBracket" THEN PostfixIndexed(ParseIndex(f, p))
    ELSE Parsed(f, p)

\* case dot, after its p.scan().
PostfixDot(f, dotOk, p) ==
    IF p.err # "nil" THEN Parsed(f, p)
    ELSE IF p.tok \in {"identifier", "str"} THEN PostfixAttr(f, p.lit, ParserScan(p))
    ELSE IF ~dotOk THEN ParserPanicf(p, "expected selector after .")
    ELSE ParsePostfixOrDot(f, FALSE, p)

\* case identifier, str: after `_, _, lit := p.scan()`.
PostfixAttr(f, lit, p) ==
    IF p.err # "nil" THEN Parsed(f, p)
    ELSE IF p.tok = "questionMark"
    THEN ParsePostfixOrDot(FieldOpt(f, lit), FALSE, ParserScan(p))
    ELSE ParsePostfixOrDot(Field(f, lit), FALSE, p)

\* case leftBracket: f = p.parseIndex(f); dotOk = false
PostfixIndexed(r) == ParsePostfixOrDot(r.f, FALSE, r.p)

\* p.parseIndex(base)
ParseIndex(base, p) == IndexStart(base, ParserScan(p))

IndexStart(base, p) ==
    IF p.err # "nil" THEN Parsed(base, p)
    ELSE IF p.tok = "rightBracket" THEN IndexIterate(base, ParserScan(p))
    ELSE IF p.tok = "colon" THEN IndexEnd(base, NoFilter, ParseExpr(ParserScan(p)))
    ELSE IndexFirst(base, ParseExpr(p))

\* `[]` and `[]?`
IndexIterate(base, p) ==
    IF p.err # "nil" THEN Parsed(base, p)
    ELSE IF p.tok = "questionMark" THEN Parsed(IterOpt(base), ParserScan(p))
    ELSE Parsed(Iter(base), p)

\* idx = p.parseExpr() has returned r.
IndexFirst(base, r) ==
    IF r.p.err # "nil" THEN r
    ELSE IF r.p.tok = "colon" THEN IndexAfterColon(base, r.f, ParserScan(r.p))
    ELSE IndexClose(base, r.f, NoFilter, NoFilter, r.p)

\* begin, idx = idx, nil; p.scan()
IndexAfterColon(base, begin, p) ==
    IF p.err # "nil" THEN Parsed(base, p)
    ELSE IF p.tok # "rightBracket" THEN IndexEnd(base, begin, ParseExpr(p))
    ELSE IndexClose(base, NoFilter, begin, NoFilter, p)

\* end = p.parseExpr() has returned r.
IndexEnd(base, begin, r) ==
    IF r.p.err # "nil" THEN r
    ELSE IndexClose(base, NoFilter, begin, r.f, r.p)

\* parseIndex from `if p.tok != rightBracket`.
IndexClose(base, idx, begin, end, p) ==
    IF p.tok # "rightBracket" THEN ParserPanicf(p, "expected ]")
    ELSE IF idx # NoFilter THEN Parsed(IndexAt(base, idx), ParserScan(p))
    ELSE IF begin = NoFilter THEN Parsed(SliceTo(base, end), ParserScan(p))
    ELSE IF end = NoFilter THEN Parsed(SliceFrom(base, begin), ParserScan(p))
    ELSE Parsed(SliceBoth(base, begin, end), ParserScan(p))

\* p.parseArrayConstruct()
ParseArrayConstruct(p) == ArrayElems(<<>>, ParserScan(p))

\* The loop `for p.tok != rightBracket` with the exprs parsed so far.
ArrayElems(exprs, p) ==
    IF p.err # "nil" THEN Parsed(NoFilter, p)
    ELSE IF p.tok # "rightBracket" THEN ArrayElem(exprs, ParseExpr(p))
    ELSE Parsed(Arr(exprs), ParserScan(p))

\* exprs = append(exprs, p.parseExpr()) has parsed r.
ArrayElem(exprs, r) ==
    IF r.p.err # "nil" THEN r
    ELSE IF r.p.tok = "comma" THEN ArrayElems(Append(exprs, r.f), ParserScan(r.p))
    ELSE IF r.p.tok # "rightBracket" THEN ParserPanicf(r.p, "expected , or ]")
    ELSE ArrayElems(Append(exprs, r.f), r.p)

\* p.parseObjectConstruct()
ParseObjectConstruct(p) == ObjectAttrs(<<>>, ParserScan(p))

\* The loop `for p.tok != rightBrace` with the attrs parsed so far.
ObjectAttrs(attrs, p) ==
    IF p.err # "nil" THEN Parsed(NoFilter, p)
    ELSE IF p.tok # "rightBrace" THEN ObjectKey(attrs, p)
    ELSE Parsed(Obj(attrs), ParserScan(p))

ObjectKey(attrs, p) ==
    IF p.tok \in {"identifier", "str"}
    THEN ObjectColon(attrs, Lit(StrV(p.lit)), ParserScan(p))
    ELSE IF p.tok = "leftParen" THEN ObjectKeyGroup(attrs, ParseGroup(p))
    ELSE ParserPanicf(p, "expected attribute name or }")

\* key = p.parseGroup() has parsed r.
ObjectKeyGroup(attrs, r) == ObjectColon(attrs, r.f, r.p)

\* From `if p.tok != colon`.
ObjectColon(attrs, key, p) ==
    IF p.err # "nil" THEN Parsed(NoFilter, p)
    ELSE IF p.tok # "colon" THEN ParserPanicf(p, "expected :")
    ELSE ObjectValue(attrs, key,
                     ParseBinary(BinaryLevelsWithoutComma, ParserScan(p)))

\* value := p.parseBinary(binaryLevelsWithoutComma) has parsed r.
ObjectValue(attrs, key, r) ==
    IF r.p.err # "nil" THEN r
    ELSE IF r.p.tok = "comma"
    THEN ObjectAttrs(attrs \o <<key, r.f>>, ParserScan(r.p))
    ELSE IF r.p.tok # "rightBrace" THEN ParserPanicf(r.p, "expected , or }")
    ELSE ObjectAttrs(attrs \o <<key, r.f>>, r.p)

\* p.parse() after the initScanErr test.
ParseEnd(r) ==
    IF r.p.err # "nil" THEN r
    ELSE IF r.p.tok # "eof" THEN ParserPanicf(r.p, "junk at end of file")
    ELSE r

\* p.parse()
Parse(p) ==
    IF p.initScanErr # "nil" THEN ParserPanicf(p, p.initScanErr)
    ELSE IF p.tok = "eof" THEN Parsed(Dot, p)
    ELSE ParseEnd(ParseExpr(p))

\* Compile once p.parse() has returned r or panicked: the deferred function
\* turns the panic into the returned error.
CompileParsed(r) ==
    IF r.p.err # "nil"
    THEN [filter |-> NoFilter, err |-> r.p.err, panic |-> FALSE, s |-> r.p.s]
    ELSE [filter |-> r.f, err |-> "nil", panic |-> FALSE, s |-> r.p.s]

\* Compile once newScanner has returned s or panicked: no recover is
\* deferred yet when newScanner and newParser run.
CompileScanner(s) ==
    IF s.err # "nil"
    THEN [filter |-> NoFilter, err |-> s.err, panic |-> TRUE, s |-> s]
    ELSE CompileParsed(Parse(NewParser(s)))

\* Compile(name, src), as [filter, err, panic, s].
Compile(src) == CompileScanner(NewScanner(src))

(***************************************************************************)
(* Specification SpecCompile: one source is compiled and the filter, if    *)
(* there is one, is applied once to a value.  scanner holds the source     *)
(* before the call and the scanner of the compilation after it; pc tells   *)
(* how Compile ended: "compiled" (a filter and a nil error), "error" (a    *)
(* nil filter and an error), "panic" (Compile did not return).             *)
(***************************************************************************)
\* Programs with binary operators.
PrecedenceSources ==
    { Bytes(<<"1", ",", " ", "2", " ", "|", " ", "3">>),  \* 1, 2 | 3
      Bytes(<<"1", "2", " ", "/", " ", "2", " ", "%", " ", "4">>),  \* 12 / 2 % 4
      Bytes(<<"{", "a", ":", "1", "|", "2", ",", "b", ":", "3", "|", "4", "}">>),  \* {a:1|2,b:3|4}
      Bytes(<<"1", " ", "+", " ", "2", " ", "*", " ", "3">>),  \* 1 + 2 * 3
      Bytes(<<"2", " ", "*", " ", "3", " ", "+", " ", "1">>),  \* 2 * 3 + 1
      Bytes(<<"1", " ", "-", " ", "2", " ", "-", " ", "3">>),  \* 1 - 2 - 3
      Bytes(<<"8", " ", "/", " ", "4", " ", "/", " ", "2">>),  \* 8 / 4 / 2
      Bytes(<<"1", " ", "|", " ", "2", ",", " ", "3">>),  \* 1 | 2, 3
      Bytes(<<"{", "a", ":", "1", "+", "2", "}">>),  \* {a:1+2}
      Bytes(<<"[", "1", " ", "|", " ", "2", "]">>) }  \* [1 | 2]

\* Programs `-P s`: a minus, a primary P and postfix selectors s.
NegatedSources ==
    { Bytes(<<"-", "[", "1", "]", "[", "0", "]">>),  \* -[1][0]
      Bytes(<<"-", "(", ".", ")", "[", "0", "]">>),  \* -(.)[0]
      Bytes(<<"-", "(", ".", ")", ".", "x">>),  \* -(.).x
      Bytes(<<"-", "[", ".", "]", "[", "]">>),  \* -[.][]
      Bytes(<<"-", ".", "x", "[", "0", "]">>),  \* -.x[0]
      Bytes(<<"-", ".", "[", "0", "]">>),  \* -.[0]
      Bytes(<<"-", ".", "[", "]">>),  \* -.[]
      Bytes(<<"-", ".", "x">>),  \* -.x
      Bytes(<<"-", "1">>),  \* -1
      Bytes(<<"-", "\"", "a", "\"">>) }  \* -"a"

\* Array constructors.
ArraySources ==
    { Bytes(<<"[", "1", ",", "]">>),  \* [1,]
      Bytes(<<"[", ".", ",", " ", ".", ",", "]">>),  \* [., .,]
      Bytes(<<"[", "1", "]">>),  \* [1]
      Bytes(<<"[", ".", ",", " ", ".", "]">>),  \* [., .]
      Bytes(<<"[", "]">>),  \* []
      Bytes(<<"[", "1", ",", "2", "]">>),  \* [1,2]
      Bytes(<<"[", ".", "[", "]", "]">>),  \* [.[]]
      Bytes(<<"[", ".", "[", "]", "?", "]">>),  \* [.[]?]
      Bytes(<<"[", "(", "1", ",", "2", ")", ",", "3", "]">>),  \* [(1,2),3]
      Bytes(<<"[", "1", " ", "2", "]">>),  \* [1 2]
      Bytes(<<"[", ",", "]">>) }  \* [,]

\* Sources with no token: empty, whitespace, comments.
BlankSources ==
    { <<>>,  \* 
      Bytes(<<" ">>),  \*  
      Bytes(<<"#", " ", "c">>),  \* # c
      Bytes(<<" ">>) \o <<Control.ht>> \o <<Control.lf>>,  \*  \t\n
      Bytes(<<"#", " ", "c">>) \o <<Control.lf>> \o Bytes(<<" ">>),  \* # c\n 
      Bytes(<<"#">>) \o <<Control.lf>> \o Bytes(<<"#">>) }  \* #\n#

\* A complete expression followed by more tokens.
JunkSources ==
    { Bytes(<<"1", " ", "2">>),  \* 1 2
      Bytes(<<".", " ", ".", "x", " ", ")">>),  \* . .x )
      Bytes(<<".", "[", ":", "1", "]", "?">>),  \* .[:1]?
      Bytes(<<"[", "]", " ", "]">>) }  \* [] ]

\* Sources with a scan error on the first or on a later token.
ScanErrorSources ==
    { Bytes(<<"$">>),  \* $
      Bytes(<<"1", " ", "$">>),  \* 1 $
      Bytes(<<"1">>) \o <<Control.nul>>,  \* 1\0
      Bytes(<<"\"", "a">>),  \* "a
      Bytes(<<".", " ", "\"", "\\", "y", "\"">>),  \* . "\y"
      <<Control.nul>>,  \* \0
      <<Control.bad>>,  \* \xFF
      <<Control.nul>> \o Bytes(<<" ", "1">>),  \* \0 1
      Bytes(<<" ">>) \o <<Control.nul>> }  \*  \0

\* Sources with a parse error.
ParseErrorSources ==
    { Bytes(<<".", "5", ".", "3">>),  \* .5.3
      Bytes(<<"(", "1">>),  \* (1
      Bytes(<<".", "[", "1">>),  \* .[1
      Bytes(<<"{", "a", "}">>),  \* {a}
      Bytes(<<".", "x", ".">>),  \* .x.
      Bytes(<<"1", " ", "+">>),  \* 1 +
      Bytes(<<"{", "a", ":", "1">>),  \* {a:1
      Bytes(<<".", "[", "1", ":", "2", ":", "3", "]">>),  \* .[1:2:3]
      Bytes(<<"{", "1", ":", "2", "}">>),  \* {1:2}
      Bytes(<<"|">>) }  \* |

\* Paths and literals.
PathSources ==
    { Bytes(<<".">>),  \* .
      Bytes(<<".", "x">>),  \* .x
      Bytes(<<".", ".">>),  \* ..
      Bytes(<<".", "x", "?">>),  \* .x?
      Bytes(<<".", "[", "0", "]">>),  \* .[0]
      Bytes(<<".", "[", "1", ":", "]">>),  \* .[1:]
      Bytes(<<".", "[", ":", "1", "]">>),  \* .[:1]
      Bytes(<<".", "[", "0", ":", "1", "]">>),  \* .[0:1]
      Bytes(<<".", "[", "]", "?">>),  \* .[]?
      Bytes(<<".", " ", ".", "x">>),  \* . .x
      Bytes(<<"n", "u", "l", "l">>),  \* null
      Bytes(<<"t", "r", "u", "e">>),  \* true
      Bytes(<<"f", "a", "l", "s", "e">>),  \* false
      Bytes(<<"\"", "x", "\"">>),  \* "x"
      Bytes(<<"1", ".", "5", "e", "1">>),  \* 1.5e1
      Bytes(<<"(", "1", ",", " ", "2", ")">>),  \* (1, 2)
      Bytes(<<"{", "}">>),  \* {}
      Bytes(<<"{", "x", ":", ".", "}">>),  \* {x:.}
      Bytes(<<"{", "(", ".", "x", "[", "]", ")", ":", "1", ",", "}">>) }  \* {(.x[]):1,}
\* Sources with runes of more than one byte.
UnicodeSources ==
    { Bytes(<<".", "\"">>) \o Snowman \o Bytes(<<"\"">>),  \* ."U+2603"
      Bytes(<<".">>) \o <<195, 169>>,                       \* .U+00E9
      BomBytes \o Bytes(<<".", "x">>),                      \* BOM .x
      BomBytes,                                            \* BOM
      Bytes(<<".", "x">>) \o BomBytes,                      \* .x BOM
      Snowman,                                             \* U+2603
      <<226, 152>>,                                        \* half of U+2603
      Bytes(<<".">>) \o <<240, 150, 169, 176>> }           \* .U+16A70

CompileSources ==
    PrecedenceSources \cup NegatedSources \cup ArraySources \cup BlankSources
        \cup JunkSources \cup ScanErrorSources \cup ParseErrorSources
        \cup PathSources \cup UnicodeSources

\* The key "x" as the scanner reads it.
KeyX == Bytes(<<"x">>)

CompileInputs ==
    { Decode(RawNil),                                   \* null
      Decode(RawSlice(<<RawN(5)>>)),                    \* [5]
      Decode(RawMap(KeyX :> RawSlice(<<RawN(5)>>))) }   \* {"x": [5]}

InitCompile ==
    /\ prog = NoFilter
    /\ heap = <<>>
    /\ satArch = FALSE
    /\ release \in Releases
    /\ history = <<>>
    /\ pc = "idle"
    /\ ndec = 0
    /\ vin = NoValue
    /\ vouts = NilSlice
    /\ vi = 0
    /\ ret = ""
    /\ trace = <<>>
    /\ \E src \in CompileSources : scanner = Scanner(src)

\* filter, err := Compile(name, src) has ended as c.
CompileEnded(c) ==
    /\ scanner' = c.s
    /\ pc' = IF c.panic THEN "panic" ELSE IF c.err # "nil" THEN "error" ELSE "compiled"
    /\ ret' = IF c.panic THEN "" ELSE c.err
    /\ prog' = IF c.filter = NoFilter THEN NoFilter ELSE Build(c.filter, <<>>).t
    /\ heap' = IF c.filter = NoFilter THEN <<>> ELSE Build(c.filter, <<>>).heap

CompileCall ==
    /\ pc = "idle"
    /\ CompileEnded(Compile(scanner.src))
    /\ UNCHANGED <<satArch, release, history, ndec, vin, vouts, vi, trace>>

\* filter(v), once.
ApplyCompiled(v) ==
    /\ pc = "compiled"
    /\ Len(history) = 0
    /\ Applied(v, Run(prog, v, heap, satArch))
    /\ UNCHANGED <<scanner, prog, satArch, release, pc, ndec, vin, vouts, vi, ret, trace>>

NextCompile == CompileCall \/ \E v \in CompileInputs : ApplyCompiled(v)

SpecCompile == InitCompile /\ [][NextCompile]_vars

(***************************************************************************)
(* Properties of Sift (specification Spec), stated over trace.             *)
(***************************************************************************)
RECURSIVE Flatten(_)
Flatten(ss) == IF Len(ss) = 0 THEN <<>> ELSE Head(ss) \o Flatten(Tail(ss))

\* The events of tr that are calls of c.
CallsOf(tr, c) == SelectSeq(tr, LAMBDA e : e.call = c)

\* The values passed to Encode in tr, in order.
EncodedIn(tr) == [i \in 1..Len(CallsOf(tr, "Encode")) |-> CallsOf(tr, "Encode")[i].v]

\* The values the filter returned in tr, in order.
ProducedIn(tr) ==
    Flatten([i \in 1..Len(CallsOf(tr, "Filter")) |-> CallsOf(tr, "Filter")[i].outs])

\* The values Decode returned in tr, in order.
DecodedIn(tr) ==
    LET ds == SelectSeq(tr, LAMBDA e : e.call = "Decode" /\ e.err = "nil")
    IN [i \in 1..Len(ds) |-> ds[i].v]

Before(i) == SubSeq(trace, 1, i - 1)

\* f(v) for the compiled filter, evaluated apart from the run
FilterOf(v) == Run(prog, v, heap, satArch)
OutOf(r) == Contents(r.st.heap, r.out)

(* C1: whenever Sift calls Decode, every value the filter has returned for  *)
(* the inputs read so far has already been passed to Encode, in order: the  *)
(* outputs of input n are all encoded before input n+1 is read.             *)
C1_Ordering ==
    \A i \in 1..Len(trace) :
        trace[i].call = "Decode" => EncodedIn(Before(i)) = ProducedIn(Before(i))

\* A Decode that directly follows the two Encode calls of a two-output input.
C1_Witness ==
    \E i \in 4..Len(trace) :
        /\ trace[i].call = "Decode"
        /\ trace[i - 1].call = "Encode"
        /\ trace[i - 2].call = "Encode"
        /\ trace[i - 3].call = "Filter"
        /\ Len(trace[i - 3].outs) = 2

\* No call of tr failed: Decode returned a value or io.EOF, f and Encode nil.
NoFailureIn(tr) ==
    \A i \in 1..Len(tr) :
        /\ tr[i].call = "Decode" => tr[i].err \in {"nil", "EOF"}
        /\ tr[i].call = "Filter" => tr[i].err = "nil" /\ ~tr[i].panic
        /\ tr[i].call = "Encode" => tr[i].err = "nil"

(* C2: when the decoder has yielded v1..vk and then io.EOF and nothing      *)
(* failed, Sift has returned nil and the encoder has received exactly       *)
(* f(v1) ++ ... ++ f(vk), in that order.                                    *)
C2_Result ==
    (/\ Len(trace) > 0
     /\ trace[Len(trace)].call = "Decode"
     /\ trace[Len(trace)].err = "EOF"
     /\ NoFailureIn(trace))
    => /\ pc = "done"
       /\ ret = "nil"
       /\ EncodedIn(trace) =
              Flatten([i \in 1..Len(DecodedIn(trace)) |->
                          OutOf(FilterOf(DecodedIn(trace)[i]))])

\* Sift has returned nil after two inputs whose outputs number three or more.
C2_Witness ==
    /\ pc = "done"
    /\ ret = "nil"
    /\ Len(DecodedIn(trace)) >= 2
    /\ Len(EncodedIn(trace)) >= 3

(* C3: when the filter returns an error on an input, that call is the last  *)
(* call Sift makes (no Encode of that input, no further Decode), Sift       *)
(* returns that error, and all outputs of the earlier inputs were encoded.  *)
C3_FilterError ==
    \A i \in 1..Len(trace) :
        (trace[i].call = "Filter" /\ trace[i].err # "nil")
        => /\ i = Len(trace)
           /\ pc = "done"
           /\ ret = trace[i].err
           /\ ret = FilterOf(trace[i].v).err
           /\ EncodedIn(Before(i)) = ProducedIn(Before(i))
           /\ NoFailureIn(Before(i))

\* The filter fails on the second input after the first one's outputs were encoded.
C3_Witness ==
    /\ Len(trace) >= 5
    /\ trace[Len(trace)].call = "Filter"
    /\ trace[Len(trace)].err # "nil"
    /\ Len(EncodedIn(trace)) >= 1
    /\ Len(DecodedIn(trace)) = 2

(* C4: a Decode that returns an error other than io.EOF, or an Encode that  *)
(* returns an error, is the last call Sift makes, and Sift returns exactly  *)
(* that error.                                                              *)
C4_CodecError ==
    \A i \in 1..Len(trace) :
        (\/ trace[i].call = "Decode" /\ trace[i].err \notin {"nil", "EOF"}
         \/ trace[i].call = "Encode" /\ trace[i].err # "nil")
        => /\ i = Len(trace)
           /\ pc = "done"
           /\ ret = trace[i].err

\* Encode failed while outputs of the current input were still to be encoded.
C4_Witness ==
    /\ Len(trace) > 0
    /\ trace[Len(trace)].call = "Encode"
    /\ trace[Len(trace)].err # "nil"
    /\ vi < vouts.len
    /\ pc = "done"

(***************************************************************************)
(* Properties of filter application (specification SpecApply), stated over *)
(* history.                                                                *)
(***************************************************************************)
\* The arguments of the calls logged at path, in order.
ArgsAt(calls, path) ==
    LET cs == SelectSeq(calls, LAMBDA c : c.path = path)
    IN [i \in 1..Len(cs) |-> cs[i].v]

\* The evaluation state in which the application recorded as e started.
St0(e) == [heap |-> e.h0, calls |-> <<>>, sat |-> satArch]

(* C5: no application of a compiled filter panics.                          *)
C5_NoPanic == \A i \in 1..Len(history) : ~history[i].panic

(* C6: every application returns what the freshly compiled filter returns   *)
(* for that input, whatever was applied before; the list an earlier         *)
(* application returned still holds the values it held; and the list of     *)
(* every Literal of the tree still is the one-element list of its value.    *)
C6_Pure ==
    /\ \A i \in 1..Len(history) :
           LET fresh == Run(prog, history[i].v, history[1].h0, satArch)
           IN /\ history[i].vs = OutOf(fresh)
              /\ history[i].err = fresh.err
              /\ history[i].panic = fresh.panic
              /\ Contents(heap, history[i].out) = history[i].vs
    /\ \A l \in Literals(prog) :
           /\ Contents(heap, l.s) = <<l.v>>
           /\ Len(heap[l.s.arr]) = 1

(* Two applications, to different inputs and with different results, the   *)
(* first of which returned the very list of a Literal of the tree.          *)
C6_Witness ==
    /\ Len(history) >= 2
    /\ history[1].v # history[2].v
    /\ \E l \in Literals(prog) : history[1].out.arr = l.s.arr
    /\ history[1].vs # <<>>
    /\ history[2].vs # <<>>
    /\ history[1].vs # history[2].vs

(* C7: Compose(f, g) on v returns, when no call errs, the concatenation of  *)
(* g(x) for x in f(v), in order; when f(v) errs, that error, and g is not   *)
(* called; otherwise the error of the first failing g(x), and g has been    *)
(* called on the elements up to that one only.                              *)
C7_Compose ==
    \A i \in 1..Len(history) :
        (prog.op = "compose" /\ ~history[i].panic) =>
        LET e == history[i]
            rf == Eval(prog.f, <<1>>, e.v, St0(e))
            xs == OutOf(rf)
            gs == [k \in 1..Len(xs) |-> Eval(prog.g, <<2>>, xs[k], rf.st)]
            bad == {k \in 1..Len(xs) : Failed(gs[k])}
            k0 == CHOOSE k \in bad : \A m \in bad : k <= m
        IN IF rf.err # "nil"
           THEN e.err = rf.err /\ ArgsAt(e.calls, <<2>>) = <<>>
           ELSE IF bad = {}
           THEN /\ e.err = "nil"
                /\ e.vs = Flatten([k \in 1..Len(xs) |-> OutOf(gs[k])])
                /\ ArgsAt(e.calls, <<2>>) = xs
           ELSE /\ e.err = gs[k0].err
                /\ ArgsAt(e.calls, <<2>>) = SubSeq(xs, 1, k0)

(* One application where g ran on two elements and both succeeded, and one  *)
(* where g succeeded on the first element and failed on the second.         *)
C7_Witness ==
    /\ prog.op = "compose"
    /\ \E i \in 1..Len(history) :
           /\ history[i].err = "nil"
           /\ ~history[i].panic
           /\ Len(ArgsAt(history[i].calls, <<2>>)) = 2
           /\ Len(history[i].vs) = 2
    /\ \E j \in 1..Len(history) :
           /\ history[j].err # "nil"
           /\ Len(ArgsAt(history[j].calls, <<2>>)) = 2
           /\ Len(OutOf(Eval(prog.f, <<1>>, history[j].v, St0(history[j])))) >= 2

(* C8: Concat(x, y) on v returns x(v) followed by y(v): |x(v)| + |y(v)|     *)
(* values, the first |x(v)| being x(v) and the rest y(v); when x(v) errs,   *)
(* that error is returned and y is not evaluated.                           *)
C8_Concat ==
    \A i \in 1..Len(history) :
        (prog.op = "concat" /\ ~history[i].panic) =>
        LET e == history[i]
            rx == Eval(prog.x, <<1>>, e.v, St0(e))
            ry == Eval(prog.y, <<2>>, e.v, rx.st)
            xs == OutOf(rx)
            ys == OutOf(ry)
        IN IF rx.err # "nil"
           THEN e.err = rx.err /\ ArgsAt(e.calls, <<2>>) = <<>>
           ELSE IF ry.err # "nil" THEN e.err = ry.err
           ELSE /\ e.err = "nil"
                /\ Len(e.vs) = Len(xs) + Len(ys)
                /\ SubSeq(e.vs, 1, Len(xs)) = xs
                /\ SubSeq(e.vs, Len(xs) + 1, Len(e.vs)) = ys

(* One application where x gave two values and y one, different from them,  *)
(* and one where x failed.                                                  *)
C8_Witness ==
    /\ prog.op = "concat"
    /\ \E i \in 1..Len(history) :
           /\ history[i].err = "nil"
           /\ ~history[i].panic
           /\ Len(OutOf(Eval(prog.x, <<1>>, history[i].v, St0(history[i])))) = 2
           /\ Len(history[i].vs) = 3
           /\ history[i].vs[3] # history[i].vs[1]
    /\ \E j \in 1..Len(history) :
           /\ history[j].err # "nil"
           /\ Eval(prog.x, <<1>>, history[j].v, St0(history[j])).err # "nil"

RECURSIVE PairResults(_, _, _, _, _, _)
(* op over the pairs of xs and ys from the k-th on (k from 0), the pairs    *)
(* numbered with the position in ys varying fastest; [vs, err].             *)
PairResults(fn, st, xs, ys, k, acc) ==
    IF k >= Len(xs) * Len(ys) THEN [vs |-> acc, err |-> "nil"]
    ELSE LET r == Apply2(fn, st, xs[(k \div Len(ys)) + 1], ys[(k % Len(ys)) + 1])
         IN IF r.panic THEN [vs |-> acc, err |-> "panic"]
            ELSE IF r.err # "nil" THEN [vs |-> acc, err |-> r.err]
            ELSE PairResults(fn, st, xs, ys, k + 1, acc \o OutOf(r))

(* C9: Binary(x, y, op) on v calls x once and y once, both on v, and        *)
(* returns the concatenation of op(xv, yv) over the pairs, xv in the outer  *)
(* and yv in the inner loop (or the error of the first failing pair);       *)
(* .[(1, 0)] on ["a", "b"] returns "b" then "a".                            *)
C9_Binary ==
    \A i \in 1..Len(history) :
        (prog.op = "binary" /\ ~history[i].panic) =>
        LET e == history[i]
            rx == Eval(prog.x, <<1>>, e.v, St0(e))
            ry == Eval(prog.y, <<2>>, e.v, rx.st)
            want == PairResults(prog.fn, ry.st, OutOf(rx), OutOf(ry), 0, <<>>)
        IN /\ ArgsAt(e.calls, <<1>>) = <<e.v>>
           /\ IF rx.err # "nil" THEN e.err = rx.err
              ELSE /\ ArgsAt(e.calls, <<2>>) = <<e.v>>
                   /\ IF ry.err # "nil" THEN e.err = ry.err
                      ELSE /\ e.err = want.err
                           /\ e.err = "nil" => e.vs = want.vs
           /\ (/\ prog = Build(IndexAt(Dot, Comma(Lit(Num(1)), Lit(Num(0)))), <<>>).t
               /\ e.v = Decode(RawSlice(<<RawA, RawB>>)))
              => e.vs = <<StrV(Sb), StrV(Sa)>>

\* An application where x and y gave two values each and four results came out.
C9_Witness ==
    /\ prog.op = "binary"
    /\ \E i \in 1..Len(history) :
           /\ history[i].err = "nil"
           /\ ~history[i].panic
           /\ Len(OutOf(Eval(prog.x, <<1>>, history[i].v, St0(history[i])))) = 2
           /\ Len(OutOf(Eval(prog.y, <<2>>, history[i].v, St0(history[i])))) = 2
           /\ Len(history[i].vs) = 4
           /\ history[i].vs[2] # history[i].vs[3]

(* C10: an object construction whose key and value expressions succeed,     *)
(* with string keys, returns one object per tuple of the Cartesian product  *)
(* of their outputs, the last expression varying fastest: as many objects   *)
(* as the product of the output counts.                                     *)
C10_ObjectProduct ==
    \A i \in 1..Len(history) :
        prog.op = "nary" =>
        LET e == history[i]
            rs == [j \in 1..Len(prog.fs) |-> Eval(prog.fs[j], <<j>>, e.v, St0(e))]
            ls == [j \in 1..Len(prog.fs) |-> OutOf(rs[j])]
            n == Product([j \in 1..Len(ls) |-> Len(ls[j])])
        IN (/\ \A j \in 1..Len(rs) : ~Failed(rs[j])
            /\ \A j \in 1..Len(ls) : j % 2 = 1 =>
                   \A k \in 1..Len(ls[j]) : AsString(ls[j][k]).ok)
           => /\ ~e.panic
              /\ e.err = "nil"
              /\ Len(e.vs) = n
              /\ \A t \in 1..n :
                     e.vs[t] = ObjV(ObjectPairs(TupleAt(ls, t - 1), EmptyMap).m)

(***************************************************************************)
(* Properties of single applications (specification SpecOnce).             *)
(***************************************************************************)
\* What the program p, compiled apart, returns for the input of entry e.
Other(p, e) == Run(Build(p, <<>>).t, e.v, Build(p, <<>>).heap, satArch)

HasKey(v, k) == ImplAttr(v) /\ Attr(v, StrV(k)).ok

(* C11 as stated: `.x` on an input that is neither an Object nor Null       *)
(* returns an error and no values.                                          *)
C11_FieldTypeError ==
    \A i \in 1..Len(history) :
        (prog = Field(Dot, Sx) /\ ~ImplAttr(history[i].v) /\ ~IsNull(history[i].v))
        => history[i].err # "nil" /\ history[i].vs = <<>>

(* C11 as amended: `.x` on an input that is neither an Object nor Null      *)
(* returns exactly one value, Null, and no error.                           *)
C11_FieldNotObject ==
    \A i \in 1..Len(history) :
        (prog = Field(Dot, Sx) /\ ~ImplAttr(history[i].v) /\ ~IsNull(history[i].v))
        => /\ history[i].err = "nil"
           /\ ~history[i].panic
           /\ history[i].vs = <<NullValue>>

\* `.x` has been applied to an Array.
C11_Witness ==
    /\ prog = Field(Dot, Sx)
    /\ Len(history) = 1
    /\ ImplIndex(history[1].v)
    /\ Len(history[1].vs) = 1

(* C12 as stated: on every input on which `.x` (`.[]`) returns no error,    *)
(* `.x?` (`.[]?`) returns the same values.                                  *)
C12_OptionalSame ==
    \A i \in 1..Len(history) :
        /\ (prog = FieldOpt(Dot, Sx) /\ Other(Field(Dot, Sx), history[i]).err = "nil")
           => /\ history[i].err = "nil"
              /\ history[i].vs = OutOf(Other(Field(Dot, Sx), history[i]))
        /\ (prog = IterOpt(Dot) /\ Other(Iter(Dot), history[i]).err = "nil")
           => /\ history[i].err = "nil"
              /\ history[i].vs = OutOf(Other(Iter(Dot), history[i]))

(* C12 as amended: `.[]?` returns what `.[]` returns where `.[]` returns no  *)
(* error, and nothing where it does.  `.x` never returns an error; `.x?`    *)
(* returns what `.x` returns when the input is an Object with key x, and    *)
(* no values, where `.x` returns Null, on every other input.                *)
C12_Optional ==
    \A i \in 1..Len(history) :
        /\ prog = IterOpt(Dot) =>
              /\ history[i].err = "nil" /\ ~history[i].panic
              /\ history[i].vs =
                     (IF Other(Iter(Dot), history[i]).err = "nil"
                      THEN OutOf(Other(Iter(Dot), history[i])) ELSE <<>>)
        /\ prog = FieldOpt(Dot, Sx) =>
              /\ history[i].err = "nil" /\ ~history[i].panic
              /\ Other(Field(Dot, Sx), history[i]).err = "nil"
              /\ IF HasKey(history[i].v, Sx)
                 THEN history[i].vs = OutOf(Other(Field(Dot, Sx), history[i]))
                 ELSE /\ history[i].vs = <<>>
                      /\ OutOf(Other(Field(Dot, Sx), history[i])) = <<NullValue>>

\* `.[]?` has been applied to a value that `.[]` rejects.
C12_Witness ==
    /\ prog = IterOpt(Dot)
    /\ Len(history) = 1
    /\ Other(Iter(Dot), history[1]).err # "nil"
    /\ history[1].vs = <<>>

(* C13: `.x?` on an Object with key x returns exactly the value of x, and   *)
(* on an Object without key x returns no values and no error.               *)
C13_FieldOpt ==
    \A i \in 1..Len(history) :
        (prog = FieldOpt(Dot, Sx) /\ ImplAttr(history[i].v))
        => /\ history[i].err = "nil"
           /\ ~history[i].panic
           /\ history[i].vs =
                  (IF Sx \in DOMAIN history[i].v.m
                   THEN <<IF history[i].v.k = "jobj"
                          THEN ToValue(history[i].v.m[Sx]).v
                          ELSE history[i].v.m[Sx]>>
                   ELSE <<>>)

\* `.x?` has been applied to an Object without key x.
C13_Witness ==
    /\ prog = FieldOpt(Dot, Sx)
    /\ Len(history) = 1
    /\ ImplAttr(history[1].v)
    /\ Sx \notin DOMAIN history[1].v.m
    /\ history[1].vs = <<>>

\* The program `.[e]` for a number e, as compiled.
IndexProgram(e) == Build(IndexAt(Dot, NumExpr(e)), <<>>).t

\* Element i of the Array a as a value.
ElementOf(a, i) == IF a.k = "jarr" THEN ToValue(a.e[i + 1]).v ELSE a.e[i + 1]

\* The value the position i of the Array a holds: Null outside [0, n) and
\* for a hole.
ElementOrNull(a, i) ==
    IF i < 0 \/ i >= Len(a.e) THEN NullValue
    ELSE IF a.e[i + 1] = Hole THEN NullValue
    ELSE ElementOf(a, i)

\* What C14 expects of `.[e]` on the Array a.
IndexExpected(a, e) ==
    IF ~IsWhole(e) THEN <<>>
    ELSE IF ~IsZero(e) /\ Exponent(e) >= 29 THEN <<NullValue>>
    ELSE <<ElementOrNull(a, IF Trunc(e) < 0 THEN Trunc(e) + Len(a.e)
                            ELSE Trunc(e))>>

(* C14 as stated: `.[e]` on an Array returns no value for a non-integer e   *)
(* and, for an integer e, exactly one value: the element at e (counted     *)
(* from the end when e is negative), or Null outside the array or at a     *)
(* hole; it never returns an error.                                         *)
C14_Index ==
    \A e \in IndexNumbers : \A i \in 1..Len(history) :
        (prog = IndexProgram(e) /\ ImplIndex(history[i].v))
        => /\ history[i].err = "nil"
           /\ ~history[i].panic
           /\ history[i].vs = IndexExpected(history[i].v, e)

\* The program `.[b:e]` for numbers b and e, as compiled; Hole is an omitted
\* bound: `.[:e]` and `.[b:]`.
SliceProgram(b, e) ==
    Build(IF b = Hole THEN SliceTo(Dot, NumExpr(e))
          ELSE IF e = Hole THEN SliceFrom(Dot, NumExpr(b))
          ELSE SliceBoth(Dot, NumExpr(b), NumExpr(e)), <<>>).t

\* A bound b normalised for length n as C15 states it: add n when negative,
\* clamp into [0, n], truncate.
FLess(x, y) == ~IsNaN(FSub(x, y)) /\ ~IsZero(FSub(x, y)) /\ FSub(x, y).s < 0
Shifted(b, n) == IF FLess(b, Zero(1)) THEN FAdd(b, FromInt(n)) ELSE b
Clamped(s, n) ==
    IF FLess(s, Zero(1)) THEN 0
    ELSE IF FLess(FromInt(n), s) THEN n
    ELSE Trunc(s)
NormalBound(b, n) == Clamped(Shifted(b, n), n)

RECURSIVE NonHoles(_, _, _)
\* The non-hole elements of the Array a at positions lo <= i < hi, in order.
NonHoles(a, lo, hi) ==
    IF lo >= hi THEN <<>>
    ELSE (IF a.e[lo + 1] = Hole THEN <<>> ELSE <<ElementOf(a, lo)>>)
         \o NonHoles(a, lo + 1, hi)

\* What C15 expects of `.[b:e]` on the Array a.
SliceExpected(a, b, e) ==
    <<ArrV(NonHoles(a, IF b = Hole THEN 0 ELSE NormalBound(b, Len(a.e)),
                       IF e = Hole THEN Len(a.e) ELSE NormalBound(e, Len(a.e))))>>

(* C15 as stated: `.[b:e]` on an Array of length n returns exactly one      *)
(* Array, of the non-hole elements at positions lo <= i < hi, where lo and  *)
(* hi are 0 and n for omitted bounds and otherwise the bound with n added   *)
(* when negative, then clamped into [0, n], then truncated.                 *)
C15_Slice ==
    \A b, e \in BoundNumbers \cup {Hole} : \A i \in 1..Len(history) :
        (/\ b # Hole \/ e # Hole
         /\ prog = SliceProgram(b, e)
         /\ ImplIndex(history[i].v))
        => /\ history[i].err = "nil"
           /\ ~history[i].panic
           /\ history[i].vs = SliceExpected(history[i].v, b, e)

\* The Array a has a hole.
HasHole(a) == ImplIndex(a) /\ \E j \in 1..Len(a.e) : a.e[j] = Hole

\* The Array a with Null in the place of every hole.
NullFilled(a) == ArrV([j \in 1..Len(a.e) |-> IF a.e[j] = Hole THEN NullValue ELSE a.e[j]])

\* `.[]` returns one value for each position that is not a hole.
IterateSkipsHoles ==
    \A i \in 1..Len(history) :
        (prog = Iter(Dot) /\ ImplIndex(history[i].v))
        => /\ history[i].err = "nil"
           /\ history[i].vs = NonHoles(history[i].v, 0, Len(history[i].v.e))

\* The program is a slice: `.[b:e]`, `.[b:]` or `.[:e]`.
IsSlice(f) == f.op = "ternary" \/ (f.op = "binary" /\ f.fn \in {"sliceBegin", "sliceEnd"})

\* The Array a slice returns has no hole.
SliceDropsHoles ==
    \A i \in 1..Len(history) :
        (IsSlice(prog) /\ ImplIndex(history[i].v) /\ history[i].err = "nil" /\ ~history[i].panic)
        => /\ Len(history[i].vs) = 1
           /\ ImplIndex(history[i].vs[1])
           /\ ~HasHole(history[i].vs[1])
           /\ Len(history[i].vs[1].e) <= Len(NonHoles(history[i].v, 0, Len(history[i].v.e)))

\* `..` returns no hole and, for an Array, nothing in the place of one.
WalkSkipsHoles ==
    \A i \in 1..Len(history) :
        prog = DotDot
        => /\ \A j \in 1..Len(history[i].vs) : history[i].vs[j] # Hole
           /\ (ImplIndex(history[i].v) /\ \A j \in 1..Len(history[i].v.e) :
                   ~ImplIndex(ElementOf(history[i].v, j - 1)) /\ ~ImplAttr(ElementOf(history[i].v, j - 1)))
              => history[i].vs = <<history[i].v>> \o NonHoles(history[i].v, 0, Len(history[i].v.e))

\* An Array with a hole and the same Array with Null there are not Equal.
EqualSeesHoles ==
    \A i \in 1..Len(history) :
        HasHole(history[i].v)
        => /\ ~Equal(history[i].v, NullFilled(history[i].v))
           /\ ~Equal(NullFilled(history[i].v), history[i].v)

(* C16 as stated: a hole of an Array is absent and never Null: `.[]`        *)
(* returns no value for it, slicing drops it, `..` skips it, and Equal      *)
(* tells an Array with a hole from the same Array with Null in its place.   *)
C16_Holes ==
    /\ IterateSkipsHoles
    /\ SliceDropsHoles
    /\ WalkSkipsHoles
    /\ EqualSeesHoles

\* The key of the Object o that has j - 1 keys of o before it.
KeyAt(o, j) ==
    CHOOSE k \in DOMAIN o.m : Cardinality({ l \in DOMAIN o.m : LexLess(l, k) }) = j - 1

\* The value the Object o holds for key k.
ValueOf(o, k) == IF o.k = "jobj" THEN ToValue(o.m[k]).v ELSE o.m[k]

\* The nodes below v: the values of an Object in key order, the elements of
\* an Array that are not holes in index order.
Below(v) ==
    IF ImplAttr(v) THEN [j \in 1..Cardinality(DOMAIN v.m) |-> ValueOf(v, KeyAt(v, j))]
    ELSE IF ImplIndex(v) THEN NonHoles(v, 0, Len(v.e))
    ELSE <<>>

RECURSIVE PreOrder(_)
RECURSIVE PreOrderAll(_)
\* The nodes of the tree of v, depth first, each node before its subtrees.
PreOrder(v) == <<v>> \o PreOrderAll(Below(v))

PreOrderAll(vs) == IF Len(vs) = 0 THEN <<>> ELSE PreOrder(Head(vs)) \o PreOrderAll(Tail(vs))

RECURSIVE Nodes(_)
RECURSIVE NodesAll(_)
\* The number of nodes of the tree of v.
Nodes(v) == 1 + NodesAll(Below(v))

NodesAll(vs) == IF Len(vs) = 0 THEN 0 ELSE Nodes(Head(vs)) + NodesAll(Tail(vs))

(* C17: `..` returns the nodes of the tree of its input depth first, the    *)
(* input first, then the subtree of each value of an Object in key order    *)
(* or of each element of an Array that is not a hole in index order; it     *)
(* returns as many values as the tree has nodes, and every value it         *)
(* returns is followed at once by the whole of its own subtree.             *)
C17_Walk ==
    \A i \in 1..Len(history) :
        prog = DotDot
        => /\ history[i].err = "nil"
           /\ ~history[i].panic
           /\ history[i].vs = PreOrder(history[i].v)
           /\ Len(history[i].vs) = Nodes(history[i].v)
           /\ history[i].vs[1] = history[i].v
           /\ \A j \in 1..Len(history[i].vs) :
                  /\ j + Nodes(history[i].vs[j]) - 1 <= Len(history[i].vs)
                  /\ SubSeq(history[i].vs, j, j + Nodes(history[i].vs[j]) - 1)
                         = PreOrder(history[i].vs[j])

\* `..` has been applied to {"a": [[1], [2]], "b": 3} and returned 7 values.
C17_Witness ==
    /\ prog = DotDot
    /\ Len(history) = 1
    /\ ImplAttr(history[1].v)
    /\ Len(history[1].vs) = 7
    /\ history[1].vs[7] = Num(3)

\* The program `.[0] + .[1]`, as compiled.
AddProgram ==
    Build(Bin("add", IndexAt(Dot, Lit(Num(0))), IndexAt(Dot, Lit(Num(1)))), <<>>).t

\* The input v holds an Array at positions 0 and 1.
TwoArrays(v) ==
    /\ ImplIndex(v)
    /\ Len(v.e) >= 2
    /\ v.e[1] # Hole /\ ImplIndex(ElementOf(v, 0))
    /\ v.e[2] # Hole /\ ImplIndex(ElementOf(v, 1))

(* C20 as stated: for Arrays a and b, `a + b` is one Array of Length        *)
(* Length(a) + Length(b) that holds the elements of a and then those of b.  *)
C20_AddLength ==
    \A i \in 1..Len(history) :
        (prog = AddProgram /\ TwoArrays(history[i].v))
        => /\ history[i].err = "nil"
           /\ Len(history[i].vs) = 1
           /\ ImplIndex(history[i].vs[1])
           /\ Len(history[i].vs[1].e)
                  = Len(ElementOf(history[i].v, 0).e) + Len(ElementOf(history[i].v, 1).e)
           /\ history[i].vs[1].e
                  = ElementOf(history[i].v, 0).e \o ElementOf(history[i].v, 1).e

(* C20 as amended: for Arrays a and b, `a + b` is one Array that holds the  *)
(* elements of a that are not holes and then those of b that are not        *)
(* holes; its Length is Length(a) + Length(b) when neither has a hole.      *)
C20_Add ==
    \A i \in 1..Len(history) :
        (prog = AddProgram /\ TwoArrays(history[i].v))
        => /\ history[i].err = "nil"
           /\ ~history[i].panic
           /\ Len(history[i].vs) = 1
           /\ ImplIndex(history[i].vs[1])
           /\ history[i].vs[1].e
                  = NonHoles(ElementOf(history[i].v, 0), 0, Len(ElementOf(history[i].v, 0).e))
                    \o NonHoles(ElementOf(history[i].v, 1), 0, Len(ElementOf(history[i].v, 1).e))
           /\ (~HasHole(ElementOf(history[i].v, 0)) /\ ~HasHole(ElementOf(history[i].v, 1)))
              => Len(history[i].vs[1].e)
                     = Len(ElementOf(history[i].v, 0).e) + Len(ElementOf(history[i].v, 1).e)

\* `.[0] + .[1]` has been applied to [["a", <hole>], [<hole>, "b"]].
C20_Witness ==
    /\ prog = AddProgram
    /\ Len(history) = 1
    /\ TwoArrays(history[1].v)
    /\ HasHole(ElementOf(history[1].v, 0))
    /\ history[1].vs = <<ArrV(<<StrV(Sa), StrV(Sb)>>)>>

\* The indexes at which the Array a reports a value.
PresentAt(a) == { j \in 0..(Len(a.e) - 1) : Index(a, j).ok }

\* One plus the greatest index at which a reports a value, 0 when there is
\* none.
LengthByIndex(a) ==
    IF PresentAt(a) = {} THEN 0
    ELSE 1 + CHOOSE j \in PresentAt(a) : \A l \in PresentAt(a) : l <= j

\* The Arrays an application was given and returned.
ArraysOf(e) == { a \in {e.v} \cup { e.vs[j] : j \in 1..Len(e.vs) } : ImplIndex(a) }

(* C21 as stated: the Length of every Array, of either implementation, is   *)
(* one plus the greatest index at which Index reports a value, and 0 when   *)
(* Index reports a value nowhere.                                           *)
C21_Length ==
    \A i \in 1..Len(history) : \A a \in ArraysOf(history[i]) :
        Length(a).n = LengthByIndex(a)

\* The bound b of a slice of a value of length n as clampIndex returns it;
\* lo and hi stand for an omitted begin and an omitted end.
BeginOf(b, n) == IF b = Hole THEN 0 ELSE ClampIndex(NumV(b), n, satArch).i
EndOf(e, n) == IF e = Hole THEN n ELSE ClampIndex(NumV(e), n, satArch).i

\* v is an empty Array or an empty Text.
IsEmpty(v) == Length(v).ok /\ Length(v).n = 0

(* C28 as stated: a slice of an Array or Text never runs over an inverted   *)
(* range: it returns one value and no error, and when its begin lies past   *)
(* its end the value is the empty Array or the empty Text.                  *)
C28_SliceRange ==
    \A b, e \in BoundNumbers \cup {Hole} : \A i \in 1..Len(history) :
        (/\ b # Hole \/ e # Hole
         /\ prog = SliceProgram(b, e)
         /\ Length(history[i].v).ok)
        => /\ history[i].err = "nil"
           /\ ~history[i].panic
           /\ Len(history[i].vs) = 1
           /\ Length(history[i].vs[1]).ok
           /\ ImplIndex(history[i].vs[1]) = ImplIndex(history[i].v)
           /\ BeginOf(b, Length(history[i].v).n) >= EndOf(e, Length(history[i].v).n)
              => IsEmpty(history[i].vs[1])

(***************************************************************************)
(* Properties of Equal (specification SpecEqual).                           *)
(***************************************************************************)
\* The value v holds, whatever its representation: a decoded value as
\* ToValue converts it.
Canon(v) ==
    IF v.k = "jscalar" THEN ToValue(v.i).v
    ELSE IF v.k = "jobj" THEN ToValue(RawMap(v.m)).v
    ELSE IF v.k = "jarr" THEN ToValue(RawSlice(v.e)).v
    ELSE v

\* The category of v: "null", "bool", "num", "str", "obj" or "arr".
Category(v) == Canon(v).k

(* C18 as stated: Equal is reflexive, symmetric and transitive over values  *)
(* of every representation.                                                 *)
C18_Equivalence ==
    \A i \in 1..Len(history) :
        /\ history[i].ll
        /\ history[i].lr = history[i].rl
        /\ (history[i].lr /\ history[i].rm) => history[i].lm

(* C19 as stated: Equal(l, r) is true only if l and r are of the same       *)
(* category and hold the same contents; two different Numbers, two          *)
(* different Texts, and a Number and a Text are never Equal, whatever       *)
(* their representation.                                                    *)
C19_EqualOnlyIfSame ==
    \A i \in 1..Len(history) :
        /\ history[i].lr =>
              /\ Category(history[i].l) = Category(history[i].r)
              /\ Canon(history[i].l) = Canon(history[i].r)
        /\ (/\ Category(history[i].l) \in {"num", "str"}
            /\ Category(history[i].r) \in {"num", "str"}
            /\ Canon(history[i].l) # Canon(history[i].r))
           => ~history[i].lr

(***************************************************************************)
(* Properties of the JSON encoder (specification SpecEncode).               *)
(***************************************************************************)
(* C27 as stated: encoding an Array that has a hole below its Length        *)
(* succeeds and writes null at the place of the hole.                       *)
C27_EncodeHole ==
    \A i \in 1..Len(history) :
        (/\ history[i].v.k = "arr"
         /\ HasHole(history[i].v)
         /\ \A j \in 1..Len(history[i].v.e) :
                history[i].v.e[j] = Hole \/ EncodeJSON(history[i].v.e[j]).err = "nil")
        => /\ history[i].err = "nil"
           /\ history[i].i.t = "slice"
           /\ Len(history[i].i.e) = Len(history[i].v.e)
           /\ \A j \in 1..Len(history[i].v.e) :
                  history[i].v.e[j] = Hole => history[i].i.e[j] = RawNil

(***************************************************************************)
(* Properties of the scanner (specification SpecScan), over history.       *)
(***************************************************************************)
\* The calls of scan that returned a token and no error.
Returned(h) == h.err = "nil"

\* C30 as stated: every call of scan raises a scan error, returns EOF, or
\* strictly advances the read offset rdOffset (the offset of the character
\* after ch); offset and rdOffset never exceed the length of the source;
\* after an EOF every later scan returns EOF.
C30_ReadOffset ==
    /\ scanner.offset <= Len(scanner.src)
    /\ scanner.rdOffset <= Len(scanner.src)
    /\ \A i \in 1..Len(history) :
        /\ history[i].t.offset <= Len(history[i].t.src)
        /\ history[i].t.rdOffset <= Len(history[i].t.src)
        /\ \/ ~Returned(history[i])
           \/ history[i].tok = "eof"
           \/ history[i].t.rdOffset > history[i].s.rdOffset
        /\ Returned(history[i]) /\ history[i].tok = "eof" =>
              \A j \in i..Len(history) :
                  Returned(history[j]) /\ history[j].tok = "eof"

\* C30, amended: every call of scan raises a scan error, returns EOF, or
\* strictly advances offset, the offset of the current character ch
\* (skipped whitespace and comments included); the read offset rdOffset
\* never goes back, and neither does offset; both never exceed the length
\* of the source; after an EOF every later scan returns EOF.
C30_ScanAdvances ==
    /\ scanner.offset <= Len(scanner.src)
    /\ scanner.rdOffset <= Len(scanner.src)
    /\ \A i \in 1..Len(history) :
        /\ history[i].t.offset <= Len(history[i].t.src)
        /\ history[i].t.rdOffset <= Len(history[i].t.src)
        /\ history[i].t.offset >= history[i].s.offset
        /\ history[i].t.rdOffset >= history[i].s.rdOffset
        /\ \/ ~Returned(history[i])
           \/ history[i].tok = "eof"
           \/ history[i].t.offset > history[i].s.offset
        /\ Returned(history[i]) /\ history[i].tok = "eof" =>
              \A j \in i..Len(history) :
                  Returned(history[j]) /\ history[j].tok = "eof"

\* A number after a comment-free start, then a comment skipped to the end
\* of the source, then EOF twice.
C30_Witness ==
    /\ Len(history) >= 3
    /\ Ch("#") \in {scanner.src[k] : k \in 1..Len(scanner.src)}
    /\ Returned(history[1]) /\ history[1].tok = "number"
    /\ history[1].t.offset > history[1].s.offset
    /\ history[2].tok = "eof" /\ Returned(history[2])
    /\ history[2].t.offset > history[2].s.offset
    /\ history[3].tok = "eof" /\ Returned(history[3])
    /\ history[3].t.offset = Len(scanner.src)

RECURSIVE DigitsEnd(_, _)
\* The first position at or after i of t that holds no decimal digit.
DigitsEnd(t, i) ==
    IF i <= Len(t) /\ IsDecimal(t[i]) THEN DigitsEnd(t, i + 1) ELSE i

\* t[a..] is digits* ['.' digits*] [(e|E) [+|-] digits+] with at least one
\* digit before the exponent.
IsMantissaExponent(t, a) ==
    LET b == DigitsEnd(t, a)
        dot == b <= Len(t) /\ t[b] = Ch(".")
        c == IF dot THEN DigitsEnd(t, b + 1) ELSE b
        digits == (b - a) + (IF dot THEN c - (b + 1) ELSE 0)
        d == IF c + 1 <= Len(t) /\ t[c + 1] \in {Ch("+"), Ch("-")}
             THEN c + 2 ELSE c + 1
    IN  /\ digits >= 1
        /\ \/ c = Len(t) + 1
           \/ /\ t[c] \in {Ch("e"), Ch("E")}
              /\ DigitsEnd(t, d) > d
              /\ DigitsEnd(t, d) = Len(t) + 1

\* The number grammar without a sign.
IsUnsignedNumber(t) == IsMantissaExponent(t, 1)

\* [+|-] followed by the number grammar.
IsSignedNumber(t) ==
    IF Len(t) > 0 /\ t[1] \in {Ch("+"), Ch("-")}
    THEN IsMantissaExponent(t, 2)
    ELSE IsMantissaExponent(t, 1)

\* C26: the first scan of a source that is one numeric text, signed or
\* not, returns a NUMBER whose literal is the whole source, and no error.
C26_NumberText ==
    \A i \in 1..Len(history) :
        i = 1 /\ IsSignedNumber(history[i].s.src) =>
            /\ Returned(history[i])
            /\ history[i].tok = "number"
            /\ history[i].lit = history[i].s.src

\* C29: the literal of every NUMBER token conforms to the number grammar.
C29_NumberLiteral ==
    \A i \in 1..Len(history) :
        Returned(history[i]) /\ history[i].tok = "number" =>
            IsUnsignedNumber(history[i].lit)

(***************************************************************************)
(* Properties of Compile (specification SpecCompile).                      *)
(***************************************************************************)
\* The source given to Compile.
Source == scanner.src

\* The built tree of a filter tree.
Tree(f) == Build(f, <<>>).t

\* Every application recorded returned exactly the values vs and no error.
Emits(vs) ==
    \A i \in 1..Len(history) :
        /\ ~history[i].panic
        /\ history[i].err = "nil"
        /\ history[i].vs = vs

\* The messages of the scanner's errors.
ScanErrors ==
    {"illegal character", "illegal character NUL", "illegal UTF-8 encoding",
     "invalid number", "string literal not terminated", "invalid escape"}

\* C25: Compile ends with a filter and a nil error or with no filter and
\* an error, never otherwise; a scan error on any token and a parse error
\* are returned as the error; a source without tokens compiles to the
\* identity; tokens after a complete expression are a parse error.
C25_CompileOutcome ==
    pc # "idle" =>
        /\ pc \in {"compiled", "error"}
        /\ pc = "compiled" => ret = "nil" /\ prog # NoFilter
        /\ pc = "error" => ret \notin {"nil", ""} /\ prog = NoFilter
        /\ Source \in BlankSources => pc = "compiled" /\ prog = Dot
        /\ Source \in JunkSources => pc = "error" /\ ret = "junk at end of file"
        /\ Source \in ScanErrorSources => pc = "error" /\ ret \in ScanErrors
        /\ Source \in ParseErrorSources => pc = "error" /\ ret \notin ScanErrors

\* The source ends with `,]` after at least one element.
HasTrailingComma(src) ==
    /\ Len(src) >= 4
    /\ src[Len(src)] = Ch("]")
    /\ src[Len(src) - 1] = Ch(",")

\* The source with the comma before its last `]` removed.
WithoutTrailingComma(src) == SubSeq(src, 1, Len(src) - 2) \o <<Ch("]")>>

RECURSIVE CommaAll(_)
\* e1, e2, ..., en as one stream (the empty stream for no expression).
CommaAll(exprs) ==
    IF Len(exprs) = 1 THEN exprs[1]
    ELSE Comma(CommaAll(SubSeq(exprs, 1, Len(exprs) - 1)), exprs[Len(exprs)])

\* What the elements exprs yield on v from heap h, one after the other.
ElementOutputs(exprs, v, h) ==
    IF Len(exprs) = 0 THEN [vs |-> <<>>, err |-> "nil", panic |-> FALSE]
    ELSE LET r == Run(CommaAll(exprs), v, h, FALSE)
         IN [vs |-> Contents(r.st.heap, r.out), err |-> r.err, panic |-> r.panic]

\* C24: an array constructor with a trailing comma compiles to what the
\* same constructor without it compiles to, and an array constructor emits
\* exactly one Array holding the outputs of its elements in order.
C24_ArrayConstruct ==
    /\ pc # "idle" /\ Source \in ArraySources /\ HasTrailingComma(Source) =>
          /\ pc = "compiled"
          /\ prog = Tree(Compile(WithoutTrailingComma(Source)).filter)
    /\ pc = "compiled" /\ prog.op = "array" =>
          \A i \in 1..Len(history) :
              LET h == history[i]
                  e == ElementOutputs(prog.exprs, h.v, h.h0)
              IN  /\ h.panic = e.panic
                  /\ h.err = e.err
                  /\ ~h.panic /\ h.err = "nil" =>
                        /\ Len(h.vs) = 1
                        /\ h.vs[1].k = "arr"
                        /\ h.vs[1].e = e.vs

\* C23: `-P s` compiles to the negation of what `P s` compiles to, and
\* `-[1][0]` yields -1.
C23_MinusPostfix ==
    pc # "idle" /\ Source \in NegatedSources =>
        /\ pc = "compiled"
        /\ prog = Tree(Minus(Compile(Tail(Source)).filter))
        /\ Source = Bytes(<<"-", "[", "1", "]", "[", "0", "]">>) => Emits(<<Num(-1)>>)

\* The key of an object literal as the scanner reads it.
KeyA == Bytes(<<"a">>)
KeyB == Bytes(<<"b">>)

\* C22: `|` binds loosest, then `,`, then `+ -`, then `* / %`, each level
\* to the left; `1, 2 | 3` emits 3 twice, `12 / 2 % 4` emits 2; a field value
\* takes everything but the comma, and {a:1|2,b:3|4} yields {a:2, b:4}.
C22_Precedence ==
    pc = "compiled" =>
        /\ Source = Bytes(<<"1", ",", " ", "2", " ", "|", " ", "3">>) =>
              /\ prog = Tree(Pipe(Comma(Lit(Num(1)), Lit(Num(2))), Lit(Num(3))))
              /\ Emits(<<Num(3), Num(3)>>)
        /\ Source = Bytes(<<"1", "2", " ", "/", " ", "2", " ", "%", " ", "4">>) =>
              /\ prog = Tree(Bin("mod", Bin("div", Lit(Num(12)), Lit(Num(2))), Lit(Num(4))))
              /\ Emits(<<Num(2)>>)
        /\ Source = Bytes(<<"1", " ", "+", " ", "2", " ", "*", " ", "3">>) =>
              /\ prog = Tree(Bin("add", Lit(Num(1)), Bin("mul", Lit(Num(2)), Lit(Num(3)))))
              /\ Emits(<<Num(7)>>)
        /\ Source = Bytes(<<"2", " ", "*", " ", "3", " ", "+", " ", "1">>) =>
              /\ prog = Tree(Bin("add", Bin("mul", Lit(Num(2)), Lit(Num(3))), Lit(Num(1))))
              /\ Emits(<<Num(7)>>)
        /\ Source = Bytes(<<"1", " ", "-", " ", "2", " ", "-", " ", "3">>) =>
              /\ prog = Tree(Bin("sub", Bin("sub", Lit(Num(1)), Lit(Num(2))), Lit(Num(3))))
              /\ Emits(<<Num(-4)>>)
        /\ Source = Bytes(<<"8", " ", "/", " ", "4", " ", "/", " ", "2">>) =>
              /\ prog = Tree(Bin("div", Bin("div", Lit(Num(8)), Lit(Num(4))), Lit(Num(2))))
              /\ Emits(<<Num(1)>>)
        /\ Source = Bytes(<<"1", " ", "|", " ", "2", ",", " ", "3">>) =>
              /\ prog = Tree(Pipe(Lit(Num(1)), Comma(Lit(Num(2)), Lit(Num(3)))))
              /\ Emits(<<Num(2), Num(3)>>)
        /\ Source = Bytes(<<"{", "a", ":", "1", "|", "2", ",", "b", ":", "3", "|", "4", "}">>) =>
              /\ prog = Tree(Obj(<<Lit(StrV(KeyA)), Pipe(Lit(Num(1)), Lit(Num(2))),
                                   Lit(StrV(KeyB)), Pipe(Lit(Num(3)), Lit(Num(4)))>>))
              /\ \A i \in 1..Len(history) :
                    /\ ~history[i].panic
                    /\ history[i].err = "nil"
                    /\ Len(history[i].vs) = 1
                    /\ ImplAttr(history[i].vs[1])
                    /\ Keys(history[i].vs[1]) = <<StrV(KeyA), StrV(KeyB)>>
                    /\ Attr(history[i].vs[1], StrV(KeyA)).v = Num(2)
                    /\ Attr(history[i].vs[1], StrV(KeyB)).v = Num(4)

====
